---- MODULE Spec2Model ----
(***************************************************************************)
(* Banette: a composable Service/Layer middleware for asynchronous         *)
(* request/response calls.  This module models the stock layers as state   *)
(* machines, one coroutine segment (the code between two suspension        *)
(* points) per action.                                                     *)
(*                                                                         *)
(* The specifications share the variables; each exercises one family and   *)
(* leaves the other families' variables at their idle values:              *)
(*   SpecRetry      TRetryLayer (both revisions of its wrapper service)    *)
(*   SpecRate       TRateLimitLayer: two wrapped services, concurrent      *)
(*                  calls                                                  *)
(*   SpecDecode     FJsonLayer and TExtractLayer (their revisions)         *)
(*   SpecInject     FInjectHeaderLayer (its revisions)                     *)
(*   SpecOrigin     FHttpOriginLayer (its revisions)                       *)
(*   SpecIsolation  calls on both request-rewriting layers sharing one     *)
(*                  request object                                         *)
(*   SpecChain      TServiceBuilder and the chain of services it builds    *)
(*   SpecClient     FHttpClient, the base transport                        *)
(*   SpecLocks      the locked blocks of the rate-limit and origin         *)
(*                  services, one statement per action, two threads        *)
(*   SpecStock      a chain of stock layers over a base service            *)
(*   SpecProvider   TServiceProvider::GetService (its revisions)           *)
(*   SpecReuse      a layer configured on after Wrap made a service        *)
(*   SpecTransportRetry  TRetryLayer directly around FHttpClient            *)
(*   SpecRateLive   blocking calls on a rate-limited service under          *)
(*                  fairness, with a clock that never stops                 *)
(***************************************************************************)
EXTENDS Integers, Sequences, FiniteSets, TLC

(***************************************************************************)
(* Bounds of the model.                                                    *)
(***************************************************************************)
\* largest RetryConfig.MaxAttempts explored (the field is a uint8)
MaxAttemptsBound == 3
\* last instant of the wall clock, in ticks
MaxTime == 3
\* largest FRateLimitConfig.MaxTokens explored, in whole tokens
MaxBucket == 2
\* largest FRateLimitConfig.MaxWaitSeconds explored, in ticks
MaxWait == 2
\* longest response body explored, in bytes
MaxBody == 2
\* longest origin and relative target enumerated, in characters
MaxUrl == 2
\* how many Calls in a row a caller of the origin service makes
MaxOriginCalls == 3
\* how many layers a builder chain gets
MaxLayers == 2
\* how many times one layer service calls its inner service during a Call
MaxDelegations == 2
\* how many GetService calls each caller makes
MaxGets == 2
\* how many times a layer is configured on after its Wrap
MaxRegistrations == 2

VARIABLES
    \* ---- TRetryLayer::FRetryService / FTRetryServiceWrapper ----
    retryImpl,        \* which revision of the wrapper service is wrapped
    retryConfig,      \* FRetryConfig: MaxAttempts, DelayBetweenRetries, Challenge
    retryPc,          \* position of the Call coroutine
    Attempt,          \* the loop variable of Call
    retryResult,      \* what Call co_returned
    retryInnerLog,    \* history: the results of the inner calls, in order
    retryDelays,      \* history: number of Latent::Seconds suspensions
    retryChallenged,  \* history: number of Challenge invocations
    \* ---- TRateLimitLayer / FRateLimitService ----
    now,              \* FPlatformTime::Seconds(), in ticks
    rateConfig,       \* FRateLimitConfig held by the layer
    wrapped,          \* which services Wrap has created
    CurrentTokens,    \* per bucket, in 1/TokenUnit tokens
    LastRefillTime,   \* per bucket
    callPc,           \* per call: position of the Call coroutine
    callSvc,          \* per call: the service it was made on
    StartTime,        \* per call: WaitForToken's StartTime
    wakeAt,           \* per call: when the Latent::Seconds delay expires
    callResult,       \* per call: what Call co_returned
    callBudget,       \* per caller: how many more Calls it will make
    callHist,         \* per call, history: attempts, delays, inner calls, ...
    svcHist,          \* per service, history: creation time, acquisitions
    \* ---- FJsonLayer::FJsonService / TExtractLayer::FExtractService ----
    decodeLayer,      \* which layer (and revision of it) wrapped the service
    Extractors,       \* TExtractLayer: the type-keys with an extractor
    decodePc,         \* position of the Call coroutine
    decodeInnerCalls, \* history: how many times InnerService->Call was made
    decodeInner,      \* history: the results of the inner calls, in order
    decodeResult,     \* what Call co_returned
    extractorCalls,   \* history: the bytes each extractor invocation got
    extractorGave,    \* history: what each extractor invocation returned
    \* ---- FHttpRequest objects ----
    requestObj,       \* the request objects: the caller's, and each call's copy
    \* ---- FInjectHeaderLayer::FInjectHeaderService ----
    injectImpl,       \* which revision of the layer wrapped the service
    injectConfig,     \* Headers, LazyHeaders, AsyncLazyHeaders, bOverrideExisting
    injectPc,         \* per call: position of the Call coroutine
    asyncTodo,        \* per call: AsyncLazyHeaders entries not yet visited
    asyncKey,         \* per call: the key whose provider is being awaited
    injectSeen,       \* per call, history: the request the inner service got
    injectResult,     \* per call: what Call co_returned
    providerCalls,    \* per call, history: invocations of each provider
    injectLog,        \* per call, history: its suspensions and resumptions
    \* ---- FHttpOriginLayer::FHttpOriginService ----
    originImpl,       \* which revision of the layer wrapped the service
    originConfig,     \* Origin, and whether an OriginProvider is set
    CachedOrigin,     \* TOptional<FString>: the cache of the provider's result
    originPc,         \* per call: position of the Call coroutine
    originResult,     \* per call: what Call co_returned
    originBudget,     \* per caller: how many more Calls it will make
    originHist,       \* per call, history: cache accesses, provider, inner
    originLog,        \* history: the finished calls, in order of completion
    \* ---- TServiceBuilder and the chain of services it builds ----
    builderPc,        \* "empty" (TServiceBuilder<void>), "building", "built"
    CurrentService,   \* TServiceBuilder::CurrentService (0: none)
    svcLayer,         \* per service object: the layer whose Wrap made it
    svcInner,         \* per service object: its InnerService (0: none)
    applied,          \* history: the layers given to Layer(), in order
    builtService,     \* what Build() returned (0: not built)
    chainStack,       \* the Call coroutines in progress, outermost first
    chainTrace,       \* history: the services entered and left, in order
    chainResult,      \* the result last co_returned
    \* ---- FHttpClient (the base transport) and the engine's HTTP module ----
    clientRequest,    \* the FHttpRequest the Call was made with
    clientPc,         \* position of the Call coroutine
    httpReq,          \* the IHttpRequest the Call created and filled in
    httpCreated,      \* history: number of FHttpModule::CreateRequest() calls
    httpDispatched,   \* history: number of requests given to ProcessAsync
    httpResponse,     \* what ProcessAsync resumed the Call with
    clientResult,     \* what Call co_returned
    \* ---- the critical sections, and the locals of the calls using them ----
    Mutex,            \* FRateLimitService::Mutex: the call holding it
    CacheLock,        \* FHttpOriginService::CacheLock: the call holding it
    locals,           \* per call: WaitTime, ProviderResult
    \* ---- TServiceProvider<T>, for one service type T ----
    providerImpl,     \* which revision of GetService is compiled
    Service,          \* GetService's static TSharedPtr<T> (0: nullptr)
    bSuccess,         \* GetService's static bool
    getPc,            \* per caller: position of its GetService call
    getResult,        \* per caller: what GetService returned (0: nullptr)
    getBudget,        \* per caller: how many more calls it will make
    building,         \* per caller: the instance its BuildService is making
    buildCount,       \* history: number of BuildService invocations
    buildFailed,      \* history: has a BuildService failed
    \* ---- a layer object that is configured on after its Wrap ----
    layerConfig,      \* FInjectHeaderLayer's own Headers, LazyHeaders, ...
    atWrap,           \* history: the layer's configuration when Wrap ran
    registrations     \* history: Register/AddHeader/LazyHeader calls since

retryVars == <<retryImpl, retryConfig, retryPc, Attempt, retryResult,
               retryInnerLog, retryDelays, retryChallenged>>

rateVars == <<now, rateConfig, wrapped, CurrentTokens, LastRefillTime, callPc,
              callSvc, StartTime, wakeAt, callResult, callBudget, callHist,
              svcHist>>

decodeVars == <<decodeLayer, Extractors, decodePc, decodeInnerCalls,
                decodeInner, decodeResult, extractorCalls,
                extractorGave>>

requestVars == <<requestObj>>

injectVars == <<injectImpl, injectConfig, injectPc, asyncTodo, asyncKey,
                injectSeen, injectResult, providerCalls,
                injectLog>>

originVars == <<originImpl, originConfig, CachedOrigin, originPc,
                originResult, originBudget, originHist, originLog>>

chainVars == <<builderPc, CurrentService, svcLayer, svcInner, applied,
               builtService, chainStack, chainTrace, chainResult>>

clientVars == <<clientRequest, clientPc, httpReq, httpCreated, httpDispatched,
                httpResponse, clientResult>>

lockVars == <<Mutex, CacheLock, locals>>

reuseVars == <<layerConfig, atWrap, registrations>>

providerVars == <<providerImpl, Service, bSuccess, getPc, getResult,
                  getBudget, building, buildCount, buildFailed>>

\* what each family of actions leaves alone
notRetryVars == <<rateVars, decodeVars, requestVars, injectVars, originVars,
    chainVars,
    clientVars,
    lockVars,
    providerVars,
    reuseVars>>
notRateVars == <<retryVars, decodeVars, requestVars, injectVars, originVars,
    chainVars,
    clientVars,
    lockVars,
    providerVars,
    reuseVars>>
notDecodeVars == <<retryVars, rateVars, requestVars, injectVars, originVars,
    chainVars,
    clientVars,
    lockVars,
    providerVars,
    reuseVars>>
notInjectVars == <<retryVars, rateVars, decodeVars, originVars,
    chainVars,
    clientVars,
    lockVars,
    providerVars,
    reuseVars>>
notOriginVars == <<retryVars, rateVars, decodeVars, injectVars,
    chainVars,
    clientVars,
    lockVars,
    providerVars,
    reuseVars>>
notChainVars == <<retryVars, rateVars, decodeVars, requestVars, injectVars,
    originVars,
    clientVars,
    lockVars,
    providerVars,
    reuseVars>>
notClientVars == <<retryVars, rateVars, decodeVars, requestVars, injectVars,
    originVars, chainVars,
    lockVars,
    providerVars,
    reuseVars>>
\* what the statement-level actions of the locked blocks leave alone
notRateLockVars == <<retryVars, decodeVars, requestVars, injectVars,
    originVars, chainVars, clientVars,
    providerVars,
    reuseVars>>
notOriginLockVars == <<retryVars, rateVars, decodeVars, injectVars,
    chainVars, clientVars,
    providerVars,
    reuseVars>>
notProviderVars == <<retryVars, rateVars, decodeVars, requestVars, injectVars,
    originVars, chainVars, clientVars, lockVars,
    reuseVars>>
\* what Register, AddHeader and LazyHeader leave alone
notReuseVars == <<retryVars, rateVars, requestVars, originVars, chainVars,
    clientVars, lockVars, providerVars>>

vars == <<retryVars, rateVars, decodeVars, requestVars, injectVars,
          originVars,
          chainVars,
          clientVars,
          lockVars,
          providerVars,
          reuseVars>>

(***************************************************************************)
(* TResult<V, E>: a value or an error, never both.                         *)
(***************************************************************************)
NoValue == [tag |-> "none", seq |-> 0]
NoError == [code |-> "none", seq |-> 0]

MakeValue(v) == [valid |-> TRUE, value |-> v, error |-> NoError]
MakeError(e) == [valid |-> FALSE, value |-> NoValue, error |-> e]

\* TResult(): the default-constructed result is the error E(0, 0, nullptr)
DefaultError == [code |-> "E(0,0,nullptr)", seq |-> 0]
DefaultResult_Success == MakeValue(NoValue)
DefaultResult == MakeError(DefaultError)

(***************************************************************************)
(* TRetryLayer                                                             *)
(***************************************************************************)
\* responses and errors of the inner service, told apart by a tag and by the
\* number of the inner call that produced them
Tags == {"a", "b"}

RetryImpls == {"FRetryService", "FTRetryServiceWrapper"}

\* FRetryConfig.  Challenge is an arbitrary predicate on responses: it is
\* modelled by the set of response tags it accepts; the older revision's
\* config has no Challenge member.
RetryConfigs(impl) ==
    [MaxAttempts : 0..MaxAttemptsBound,
     DelayPositive : BOOLEAN,
     HasChallenge : IF impl = "FRetryService" THEN BOOLEAN ELSE {FALSE},
     Accept : IF impl = "FRetryService" THEN SUBSET Tags ELSE {{}}]

Challenge(res) == res.value.tag \in retryConfig.Accept

\* what the inner service may answer to its n-th call
InnerOutcomes(n) ==
    {MakeValue([tag |-> t, seq |-> n]) : t \in Tags}
    \cup {MakeError([code |-> t, seq |-> n]) : t \in Tags}

\* FRetryService::Call, "if (Result.IsValid()) if (!Config.Challenge ||
\* Config.Challenge(Result.GetValue())) co_return Result;"
RetryServiceAccepts_IgnoreChallenge(res) == res.valid
RetryServiceAccepts_NeverReturn(res) == FALSE
RetryServiceAccepts(res) ==
    res.valid /\ (~retryConfig.HasChallenge \/ Challenge(res))

\* FTRetryServiceWrapper::Call, "if (Result.IsValid()) co_return Result;"
RetryWrapperAccepts(res) == res.valid

\* is Config.Challenge called on the result: "if (Result.IsValid())" guards
\* "!Config.Challenge || Config.Challenge(Result.GetValue())"
ChallengeInvoked_OnEveryResult(res) ==
    retryImpl = "FRetryService" /\ retryConfig.HasChallenge
ChallengeInvoked(res) ==
    retryImpl = "FRetryService" /\ res.valid /\ retryConfig.HasChallenge

RetryAccepts(res) ==
    IF retryImpl = "FRetryService"
    THEN RetryServiceAccepts(res)
    ELSE RetryWrapperAccepts(res)

\* "if (Attempt >= Config.MaxAttempts) co_return Result;"
IsLastAttempt_OffByOne(a) == a > retryConfig.MaxAttempts
IsLastAttempt(a) == a >= retryConfig.MaxAttempts

\* "if (Config.DelayBetweenRetries > 0.f) co_await Latent::Seconds(...)"
DelaySuspends_Always == TRUE
DelaySuspends == retryConfig.DelayPositive

\* the loop head "Attempt <= Config.MaxAttempts": the body starts with the
\* inner call, and the code after the loop returns TResult()
RetryLoopHead_BodyFirst(a) ==
    IF a <= retryConfig.MaxAttempts \/ a = 1
    THEN /\ retryPc' = "inner"
         /\ retryResult' = retryResult
    ELSE /\ retryPc' = "done"
         /\ retryResult' = DefaultResult
RetryLoopHead(a) ==
    IF a <= retryConfig.MaxAttempts
    THEN /\ retryPc' = "inner"
         /\ retryResult' = retryResult
    ELSE /\ retryPc' = "done"
         /\ retryResult' = DefaultResult

RetryStart ==
    /\ retryImpl \in RetryImpls
    /\ retryConfig \in RetryConfigs(retryImpl)
    /\ retryPc = "idle"
    /\ Attempt = 0
    /\ retryResult = DefaultResult
    /\ retryInnerLog = <<>>
    /\ retryDelays = 0
    /\ retryChallenged = 0

\* Call is entered: "for (int32 Attempt = 1; Attempt <= Config.MaxAttempts;"
RetryCall ==
    /\ retryPc = "idle"
    /\ Attempt' = 1
    /\ RetryLoopHead(1)
    /\ UNCHANGED <<retryImpl, retryConfig, retryInnerLog, retryDelays,
                   retryChallenged, notRetryVars>>

\* the awaited inner call completes with res; the rest of the loop body
\* runs up to the next suspension point, on the retry service's own state
RetryInnerStep(res) ==
    /\ retryPc = "inner"
    /\ retryInnerLog' = Append(retryInnerLog, res)
    /\ retryChallenged' =
         IF ChallengeInvoked(res)
         THEN retryChallenged + 1 ELSE retryChallenged
    /\ IF RetryAccepts(res) \/ IsLastAttempt(Attempt)
       THEN /\ retryPc' = "done"
            /\ retryResult' = res
            /\ UNCHANGED <<Attempt, retryDelays>>
       ELSE IF DelaySuspends
            THEN /\ retryPc' = "delay"
                 /\ retryDelays' = retryDelays + 1
                 /\ UNCHANGED <<Attempt, retryResult>>
            ELSE /\ Attempt' = Attempt + 1
                 /\ RetryLoopHead(Attempt + 1)
                 /\ UNCHANGED retryDelays
    /\ UNCHANGED <<retryImpl, retryConfig>>

RetryInnerReturn(res) == RetryInnerStep(res) /\ UNCHANGED notRetryVars

\* Latent::Seconds(DelayBetweenRetries) elapses: "++Attempt" and loop head
RetryDelayElapsed ==
    /\ retryPc = "delay"
    /\ Attempt' = Attempt + 1
    /\ RetryLoopHead(Attempt + 1)
    /\ UNCHANGED <<retryImpl, retryConfig, retryInnerLog, retryDelays,
                   retryChallenged, notRetryVars>>

\* no retry service is under test
RetryIdle ==
    /\ retryImpl = "FRetryService"
    /\ retryConfig = [MaxAttempts |-> 0, DelayPositive |-> FALSE,
                      HasChallenge |-> FALSE, Accept |-> {}]
    /\ retryPc = "unused"
    /\ Attempt = 0
    /\ retryResult = DefaultResult
    /\ retryInnerLog = <<>>
    /\ retryDelays = 0
    /\ retryChallenged = 0

(***************************************************************************)
(* TRateLimitLayer                                                         *)
(*                                                                         *)
(* Token amounts are fixed-point: TokenUnit units make the 1.0 token a     *)
(* call costs.  The clock counts ticks of 1 / (TokensPerSecond *           *)
(* TokenUnit) second, so "Elapsed * TokensPerSecond" is Elapsed units and  *)
(* "Missing / TokensPerSecond" is Missing ticks; 1 / TokensPerSecond       *)
(* second is TokenUnit ticks.  The arithmetic is exact (the rounding of    *)
(* the code's doubles is not modelled).                                    *)
(***************************************************************************)
TokenUnit == 2

Services == {"A", "B"}
Calls == {"p", "q"}

Min(a, b) == IF a <= b THEN a ELSE b

RateLimitTimeout == MakeError([code |-> "RateLimitTimeout", seq |-> 0])

RateInnerOutcomes ==
    {MakeValue([tag |-> "a", seq |-> 0]), MakeError([code |-> "a", seq |-> 0])}

RateConfigs ==
    [bWaitForToken : BOOLEAN,
     MaxWaitSeconds : 0..MaxWait,
     MaxTokens : 1..MaxBucket]

\* Wrap: "return MakeShared<FRateLimitService>(Inner, Config)": the bucket is
\* a pair of fields of the new service object
BucketOf_SharedSingleton(s) == "A"
BucketOf(s) == s

Capacity == rateConfig.MaxTokens * TokenUnit

\* RefillTokens: "NewTokens = Elapsed * Config.TokensPerSecond"
NewTokens_DoubleRate(elapsed) == 2 * elapsed
NewTokens(elapsed) == elapsed

\* RefillTokens, the value of CurrentTokens after it ran at the instant now
RefilledTokens_Uncapped(b) ==
    LET Elapsed == now - LastRefillTime[b] IN
    IF Elapsed > 0
    THEN CurrentTokens[b] + NewTokens(Elapsed)
    ELSE CurrentTokens[b]
RefilledTokens(b) ==
    LET Elapsed == now - LastRefillTime[b] IN
    IF Elapsed > 0
    THEN Min(Capacity, CurrentTokens[b] + NewTokens(Elapsed))
    ELSE CurrentTokens[b]

\* RefillTokens, the value of LastRefillTime after it ran at the instant now
RefilledTime_Stale(b) == LastRefillTime[b]
RefilledTime(b) ==
    IF now - LastRefillTime[b] > 0 THEN now ELSE LastRefillTime[b]

\* "if (CurrentTokens >= 1.0)"
HasToken(tokens) == tokens >= TokenUnit

\* "if (CurrentTokens >= 1.0) { CurrentTokens -= 1.0; ... }"
AfterAttempt_AlwaysDecrement(tokens) == tokens - TokenUnit
AfterAttempt(tokens) == IF HasToken(tokens) THEN tokens - TokenUnit ELSE tokens

\* the locked block of TryAcquireToken and of WaitForToken: refill, test,
\* decrement, all under Mutex
LockedAcquire(b) ==
    /\ CurrentTokens' =
         [CurrentTokens EXCEPT ![b] = AfterAttempt(RefilledTokens(b))]
    /\ LastRefillTime' = [LastRefillTime EXCEPT ![b] = RefilledTime(b)]

\* "RemainingTime = Config.MaxWaitSeconds - ElapsedTime"
RemainingTime_Renewed(start) == rateConfig.MaxWaitSeconds
RemainingTime(start) == rateConfig.MaxWaitSeconds - (now - start)

\* "if (RemainingTime <= 0.0) co_return false;"
TimedOut_WithoutLimitToo(start) == RemainingTime(start) <= 0
TimedOut(start) ==
    rateConfig.MaxWaitSeconds > 0 /\ RemainingTime(start) <= 0

\* "WaitTime = Missing / TokensPerSecond", clamped to the remaining budget
\* when MaxWaitSeconds > 0
WaitTime_Unclamped(tokens, start) == TokenUnit - tokens
WaitTime(tokens, start) ==
    LET Missing == TokenUnit - tokens IN
    IF rateConfig.MaxWaitSeconds > 0 /\ Missing > RemainingTime(start)
    THEN RemainingTime(start)
    ELSE Missing

FreshCallHist ==
    [tries |-> 0, sleeps |-> 0, inner |-> 0, acquired |-> FALSE,
     starved |-> FALSE, fresh |-> FALSE, spent |-> 0, waited |-> 0]

\* the callers: two concurrent callers that make one Call each, or one
\* caller that makes a sequence of Calls
CallBudgets ==
    {[p \in Calls |-> 1],
     [p \in Calls |-> IF p = "p" THEN MaxBucket + 3 ELSE 0]}

\* service A has just been wrapped (at instant 0); B is wrapped later
RateStartWith(budgets) ==
    /\ now = 0
    /\ rateConfig \in RateConfigs
    /\ wrapped = [s \in Services |-> s = "A"]
    /\ CurrentTokens = [s \in Services |-> IF s = "A" THEN Capacity ELSE 0]
    /\ LastRefillTime = [s \in Services |-> 0]
    /\ callPc = [p \in Calls |-> "idle"]
    /\ callSvc = [p \in Calls |-> "A"]
    /\ StartTime = [p \in Calls |-> 0]
    /\ wakeAt = [p \in Calls |-> 0]
    /\ callResult = [p \in Calls |-> DefaultResult]
    /\ callBudget \in budgets
    /\ callHist = [p \in Calls |-> FreshCallHist]
    /\ svcHist = [s \in Services |->
                    [created |-> 0, touched |-> FALSE, log |-> <<>>]]

RateStart == RateStartWith(CallBudgets)

RateIdle ==
    /\ now = 0
    /\ rateConfig = [bWaitForToken |-> FALSE, MaxWaitSeconds |-> 0,
                     MaxTokens |-> 1]
    /\ wrapped = [s \in Services |-> FALSE]
    /\ CurrentTokens = [s \in Services |-> 0]
    /\ LastRefillTime = [s \in Services |-> 0]
    /\ callPc = [p \in Calls |-> "unused"]
    /\ callSvc = [p \in Calls |-> "A"]
    /\ StartTime = [p \in Calls |-> 0]
    /\ wakeAt = [p \in Calls |-> 0]
    /\ callResult = [p \in Calls |-> DefaultResult]
    /\ callBudget = [p \in Calls |-> 0]
    /\ callHist = [p \in Calls |-> FreshCallHist]
    /\ svcHist = [s \in Services |->
                    [created |-> 0, touched |-> FALSE, log |-> <<>>]]

\* wall-clock time passes
RateTick ==
    /\ now < MaxTime
    /\ now' = now + 1
    /\ UNCHANGED <<rateConfig, wrapped, CurrentTokens, LastRefillTime, callPc,
                   callSvc, StartTime, wakeAt, callResult, callBudget,
                   callHist, svcHist, notRateVars>>

\* wall-clock time passes beyond the last instant the clock can show: the
\* clock keeps its reading and every stored instant moves one tick into the
\* past instead.  The code compares instants by their differences only, and
\* a difference is kept exactly up to the point from which it no longer
\* matters: a bucket idle for Capacity ticks is full, a wait older than
\* MaxWaitSeconds has timed out, a delay that expired has expired.
LateTick ==
    LET W == rateConfig.MaxWaitSeconds IN
    /\ now = MaxTime
    /\ LastRefillTime' =
         [b \in Services |->
            IF LastRefillTime[b] - 1 >= now - Capacity
            THEN LastRefillTime[b] - 1 ELSE LastRefillTime[b]]
    /\ wakeAt' =
         [p \in Calls |-> IF wakeAt[p] > now THEN wakeAt[p] - 1 ELSE wakeAt[p]]
    /\ StartTime' =
         [p \in Calls |->
            IF W > 0 /\ StartTime[p] - 1 >= now - W
            THEN StartTime[p] - 1 ELSE StartTime[p]]
    /\ UNCHANGED <<now, rateConfig, wrapped, CurrentTokens, callPc, callSvc,
                   callResult, callBudget, callHist, svcHist, notRateVars>>

\* TRateLimitLayer::Wrap and the FRateLimitService constructor:
\* CurrentTokens(InConfig.MaxTokens), LastRefillTime(FPlatformTime::Seconds())
RateWrap(s) ==
    /\ ~wrapped[s]
    /\ wrapped' = [wrapped EXCEPT ![s] = TRUE]
    /\ CurrentTokens' = [CurrentTokens EXCEPT ![BucketOf(s)] = Capacity]
    /\ LastRefillTime' = [LastRefillTime EXCEPT ![BucketOf(s)] = now]
    /\ svcHist' = [svcHist EXCEPT ![s].created = now]
    /\ UNCHANGED <<now, rateConfig, callPc, callSvc, StartTime, wakeAt,
                   callResult, callBudget, callHist, notRateVars>>

\* one pass of WaitForToken's loop, from its head to the next suspension
\* point (or to the inner call of Call), for call p with history h
WaitIteration(p, b, start, h) ==
    LET tokens == RefilledTokens(b)
        tried == [h EXCEPT !.tries = @ + 1,
                           !.spent = tokens - AfterAttempt(tokens)]
    IN
    /\ LockedAcquire(b)
    /\ IF HasToken(tokens)
       THEN \* co_return true; Call goes on to InnerService->Call(Request)
            /\ callPc' = [callPc EXCEPT ![p] = "inner"]
            /\ callHist' = [callHist EXCEPT ![p] =
                              [tried EXCEPT !.acquired = TRUE, !.inner = @ + 1]]
            /\ UNCHANGED <<wakeAt, callResult>>
       ELSE IF TimedOut(start)
       THEN \* co_return false; Call returns MakeError(RateLimitTimeout)
            /\ callPc' = [callPc EXCEPT ![p] = "done"]
            /\ callResult' = [callResult EXCEPT ![p] = RateLimitTimeout]
            /\ callHist' = [callHist EXCEPT ![p] = tried]
            /\ UNCHANGED wakeAt
       ELSE \* co_await Latent::Seconds(WaitTime) when WaitTime > 0, else the
            \* loop goes round at once
            /\ callPc' = [callPc EXCEPT ![p] = "sleep"]
            /\ wakeAt' = [wakeAt EXCEPT ![p] = now + WaitTime(tokens, start)]
            /\ callHist' = [callHist EXCEPT ![p] =
                              [tried EXCEPT
                                 !.sleeps = IF WaitTime(tokens, start) > 0
                                            THEN @ + 1 ELSE @,
                                 !.waited = @ + WaitTime(tokens, start)]]
            /\ UNCHANGED callResult

\* Call in blocking mode, up to its first suspension point
RateCallBlocking(p, s) ==
    LET start == IF rateConfig.MaxWaitSeconds > 0 THEN now ELSE 0
        tokens == RefilledTokens(BucketOf(s))
        h == [FreshCallHist EXCEPT
                !.fresh = ~svcHist[s].touched,
                !.starved = /\ rateConfig.MaxWaitSeconds > 0
                            /\ ~HasToken(tokens)
                            /\ TokenUnit - tokens > rateConfig.MaxWaitSeconds]
    IN
    /\ callPc[p] \in {"idle", "done"}
    /\ callBudget[p] > 0
    /\ callBudget' = [callBudget EXCEPT ![p] = @ - 1]
    /\ wrapped[s]
    /\ rateConfig.bWaitForToken
    /\ callSvc' = [callSvc EXCEPT ![p] = s]
    /\ StartTime' = [StartTime EXCEPT ![p] = start]
    /\ svcHist' = [svcHist EXCEPT ![s].touched = TRUE]
    /\ WaitIteration(p, BucketOf(s), start, h)
    /\ UNCHANGED <<now, rateConfig, wrapped, notRateVars>>

\* Call in non-blocking mode: one TryAcquireToken, then the inner call or
\* "co_return TResult<...>()"
RateCallNonBlocking(p, s) ==
    LET b == BucketOf(s)
        tokens == RefilledTokens(b)
        h == [FreshCallHist EXCEPT
                !.fresh = ~svcHist[s].touched,
                !.tries = 1,
                !.spent = tokens - AfterAttempt(tokens)]
    IN
    /\ callPc[p] \in {"idle", "done"}
    /\ callBudget[p] > 0
    /\ callBudget' = [callBudget EXCEPT ![p] = @ - 1]
    /\ wrapped[s]
    /\ ~rateConfig.bWaitForToken
    /\ callSvc' = [callSvc EXCEPT ![p] = s]
    /\ svcHist' = [svcHist EXCEPT
                      ![s].touched = TRUE,
                      ![s].log = Append(@, [t |-> now - svcHist[s].created,
                                            ok |-> HasToken(tokens)])]
    /\ LockedAcquire(b)
    /\ IF HasToken(tokens)
       THEN /\ callPc' = [callPc EXCEPT ![p] = "inner"]
            /\ callHist' = [callHist EXCEPT ![p] =
                              [h EXCEPT !.acquired = TRUE, !.inner = 1]]
            /\ UNCHANGED callResult
       ELSE /\ callPc' = [callPc EXCEPT ![p] = "done"]
            /\ callResult' = [callResult EXCEPT ![p] = DefaultResult]
            /\ callHist' = [callHist EXCEPT ![p] = h]
    /\ UNCHANGED <<now, rateConfig, wrapped, StartTime, wakeAt, notRateVars>>

\* the Latent::Seconds delay of call p is over (the coroutine is resumed at
\* some instant not before the delay expired) and the loop goes round
RateWake(p) ==
    /\ callPc[p] = "sleep"
    /\ now >= wakeAt[p]
    /\ WaitIteration(p, BucketOf(callSvc[p]), StartTime[p], callHist[p])
    /\ UNCHANGED <<now, rateConfig, wrapped, callSvc, StartTime, callBudget,
                   svcHist, notRateVars>>

\* the inner call of p completes: "co_return co_await InnerService->Call"
RateInnerReturn(p, res) ==
    /\ callPc[p] = "inner"
    /\ callPc' = [callPc EXCEPT ![p] = "done"]
    /\ callResult' = [callResult EXCEPT ![p] = res]
    /\ UNCHANGED <<now, rateConfig, wrapped, CurrentTokens, LastRefillTime,
                   callSvc, StartTime, wakeAt, callBudget, callHist, svcHist,
                   notRateVars>>

(***************************************************************************)
(* FJsonLayer and TExtractLayer over an FHttpService                       *)
(***************************************************************************)
\* bytes of a response body: '[' ']' ' ' 'x'
Bytes == {91, 93, 32, 120}

RECURSIVE SeqsUpTo(_, _)
SeqsUpTo(S, n) ==
    IF n = 0 THEN {<<>>}
    ELSE LET shorter == SeqsUpTo(S, n - 1) IN
         shorter \cup {Append(q, x) : q \in {r \in shorter : Len(r) = n - 1},
                                      x \in S}

Bodies == SeqsUpTo(Bytes, MaxBody)

ContentTypes == {"application/json", "text/plain"}

\* FHttpResponse
HttpResponses ==
    [Url : {"http://h/a"},
     StatusCode : {200, 404},
     Headers : {{<<"Content-Length", "2">>}},
     Body : Bodies,
     ContentType : ContentTypes,
     bSucceeded : BOOLEAN]

\* what the inner FHttpService may answer
HttpOutcomes ==
    {MakeValue(r) : r \in HttpResponses}
    \cup {MakeError([code |-> c, seq |-> 0]) :
            c \in {"ConnectionFailed", "InvalidUrl"}}

\* StringCast<TCHAR>: the text of the bytes, one character per byte
CharOf(b) ==
    CASE b = 91 -> "["
      [] b = 93 -> "]"
      [] b = 32 -> " "
      [] OTHER -> "x"

TextOf(bytes) == [i \in 1..Len(bytes) |-> CharOf(bytes[i])]

\* FString::TrimStartAndEnd
RECURSIVE TrimStart(_)
TrimStart(t) ==
    IF t # <<>> /\ Head(t) = " " THEN TrimStart(Tail(t)) ELSE t

RECURSIVE TrimEnd(_)
TrimEnd(t) ==
    IF t # <<>> /\ t[Len(t)] = " " THEN TrimEnd(SubSeq(t, 1, Len(t) - 1)) ELSE t

TrimStartAndEnd(t) == TrimEnd(TrimStart(t))

NullPtr == [null |-> TRUE]

\* FJsonSerializer::Deserialize on a text over "[", "]", " ", "x": the
\* documents it accepts are the arrays "[" ws "]" and "[" ws array ws "]";
\* the parsed value is given by its nesting depth, 0 stands for a failure
RECURSIVE ArrayDepth(_)
ArrayDepth(t) ==
    LET u == TrimStartAndEnd(t) IN
    IF Len(u) < 2 \/ Head(u) # "[" \/ u[Len(u)] # "]"
    THEN 0
    ELSE LET inner == TrimStartAndEnd(SubSeq(u, 2, Len(u) - 1)) IN
         IF inner = <<>> THEN 1
         ELSE IF ArrayDepth(inner) = 0 THEN 0
         ELSE ArrayDepth(inner) + 1

\* FJsonService::ParseJsonFromBytes of the revision whose FJsonBody holds a
\* TSharedPtr<FJsonValue>
ParseJsonValueFromBytes(bytes) ==
    IF Len(bytes) = 0 THEN NullPtr
    ELSE IF TrimStartAndEnd(TextOf(bytes)) = <<>> THEN NullPtr
    ELSE IF ArrayDepth(TextOf(bytes)) = 0 THEN NullPtr
    ELSE [null |-> FALSE, array |-> ArrayDepth(TextOf(bytes))]

\* FJsonService::ParseJsonFromBytes of the revision whose FJsonBody holds an
\* FString JsonString: the text of the bytes, without any validation
ParseJsonStringFromBytes(bytes) ==
    IF Len(bytes) = 0 THEN <<>> ELSE TextOf(bytes)

JsonLayers == {"FJsonLayer.JsonString", "FJsonLayer.JsonValue"}
\* TExtractLayer as in part_004 (198-294), and its earlier revision kept in
\* RetryLayer.h (268-348)
ExtractLayers == {"TExtractLayer", "TExtractLayer.Earlier"}

\* FJsonService::Call, "JsonResponse.X = HttpResponse.X" for the metadata
CopiedMetadata_DropStatus(r) ==
    [Url |-> r.Url, StatusCode |-> 0, Headers |-> r.Headers,
     ContentType |-> r.ContentType, bSucceeded |-> r.bSucceeded]
CopiedMetadata(r) ==
    [Url |-> r.Url, StatusCode |-> r.StatusCode, Headers |-> r.Headers,
     ContentType |-> r.ContentType, bSucceeded |-> r.bSucceeded]

\* FJsonService::Call on a valid inner result: the FHttpJsonResponse
JsonResponseOf(r) ==
    LET m == CopiedMetadata(r) IN
    [Url |-> m.Url, StatusCode |-> m.StatusCode, Headers |-> m.Headers,
     ContentType |-> m.ContentType, bSucceeded |-> m.bSucceeded,
     Body |-> [RawBytes |-> r.Body,
               Json |-> IF decodeLayer = "FJsonLayer.JsonValue"
                        THEN ParseJsonValueFromBytes(r.Body)
                        ELSE ParseJsonStringFromBytes(r.Body)]]

\* "if (!Result.IsValid()) co_return MakeError(Result.GetError());"
PropagatedError_Default(res) == DefaultResult
PropagatedError(res) == MakeError(res.error)

\* FExtractService::Call, part_004: is the extractor invoked
ExtractorInvoked_EmptyBodyToo(r) == r.ContentType \in Extractors
ExtractorInvoked(r) == Len(r.Body) > 0 /\ r.ContentType \in Extractors

\* FExtractService::Call, part_004 (267-287): always a value
ExtractResult(r, content) ==
    MakeValue([base |-> r,
               content |-> IF ExtractorInvoked(r) THEN content ELSE NullPtr])

\* FExtractService::Call, earlier revision (RetryLayer.h 324-341): a value
\* only when an extractor is found, else "co_return TResult<...>()"
ExtractResultEarlier(r, content) ==
    IF r.ContentType \in Extractors
    THEN MakeValue([base |-> r,
                    content |-> IF Len(r.Body) > 0 THEN content ELSE NullPtr])
    ELSE DefaultResult

\* what an extractor may return for the bytes: null, or the parsed content
ExtractorOutputs(bytes) == {NullPtr, [null |-> FALSE, parsed |-> bytes]}

DecodeStart ==
    /\ decodeLayer \in JsonLayers \cup ExtractLayers
    /\ Extractors \in IF decodeLayer \in ExtractLayers
                      THEN SUBSET ContentTypes ELSE {{}}
    /\ decodePc = "idle"
    /\ decodeInnerCalls = 0
    /\ decodeInner = <<>>
    /\ decodeResult = DefaultResult
    /\ extractorCalls = <<>>
    /\ extractorGave = <<>>

DecodeIdle ==
    /\ decodeLayer = "FJsonLayer.JsonString"
    /\ Extractors = {}
    /\ decodePc = "unused"
    /\ decodeInnerCalls = 0
    /\ decodeInner = <<>>
    /\ decodeResult = DefaultResult
    /\ extractorCalls = <<>>
    /\ extractorGave = <<>>

\* Call is entered: "co_await InnerService->Call(Request)"
DecodeCall ==
    /\ decodePc = "idle"
    /\ decodePc' = "inner"
    /\ decodeInnerCalls' = decodeInnerCalls + 1
    /\ UNCHANGED <<decodeLayer, Extractors, decodeInner, decodeResult,
                   extractorCalls, extractorGave, notDecodeVars>>

\* FJsonService::Call after the inner call completed with res
JsonInnerReturn(res) ==
    /\ decodePc = "inner"
    /\ decodeLayer \in JsonLayers
    /\ decodeInner' = Append(decodeInner, res)
    /\ decodeResult' = IF ~res.valid THEN PropagatedError(res)
                       ELSE MakeValue(JsonResponseOf(res.value))
    /\ decodePc' = "done"
    /\ UNCHANGED <<decodeLayer, Extractors, decodeInnerCalls, extractorCalls,
                   extractorGave, notDecodeVars>>

\* FExtractService::Call after the inner call completed with res; content
\* is what the extractor returns if it is invoked
ExtractInnerReturn(res, content) ==
    /\ decodePc = "inner"
    /\ decodeLayer \in ExtractLayers
    /\ decodeInner' = Append(decodeInner, res)
    /\ decodeResult' =
         IF ~res.valid THEN PropagatedError(res)
         ELSE IF decodeLayer = "TExtractLayer"
         THEN ExtractResult(res.value, content)
         ELSE ExtractResultEarlier(res.value, content)
    /\ extractorCalls' =
         IF res.valid /\ ExtractorInvoked(res.value)
         THEN Append(extractorCalls, res.value.Body)
         ELSE extractorCalls
    /\ extractorGave' =
         IF res.valid /\ ExtractorInvoked(res.value)
         THEN Append(extractorGave, content)
         ELSE extractorGave
    /\ decodePc' = "done"
    /\ UNCHANGED <<decodeLayer, Extractors, decodeInnerCalls, notDecodeVars>>

(***************************************************************************)
(* FInjectHeaderLayer over an FHttpService                                 *)
(*                                                                         *)
(* Requests are objects: the caller's request, shared by the calls in      *)
(* flight, and the ModifiedRequest each Call creates.  FHttpRequest's      *)
(* fields are mutable, so a const request can be written through.          *)
(***************************************************************************)
HeaderKeys == {"X", "Y"}

\* TMap<FString, FString> with keys in K and values in V
Maps(K, V) == UNION {[D -> V] : D \in SUBSET K}

\* the sources of a header value, in the order Call merges them
Sources == {"static", "lazy", "async"}

\* what an async provider may yield when awaited
AsyncValues == {"async1", "async2"}

\* the request objects: <<owner, call>>
CallerRequest == <<"caller", "any">>
RequestObjects == {CallerRequest} \cup ({"inject", "origin"} \X Calls)

InjectImpls == {"FInjectHeaderLayer", "FInjectHeaderLayer.StaticOnly"}

\* the layer's configuration; the revision of part_003 has AddHeader only
InjectConfigs(impl) ==
    [Headers : Maps(HeaderKeys, {"static"}),
     LazyHeaders : IF impl = "FInjectHeaderLayer"
                   THEN SUBSET HeaderKeys ELSE {{}},
     AsyncLazyHeaders : IF impl = "FInjectHeaderLayer"
                        THEN SUBSET HeaderKeys ELSE {{}},
     bOverrideExisting : BOOLEAN]

\* the requests a caller passes
CallerRequests ==
    [Url : {<<"/", "a">>}, Headers : Maps(HeaderKeys, {"orig"})]

\* "const FHttpRequest ModifiedRequest = Request;": the object the call
\* p writes its headers to
ModifiedRequest_AliasesRequest(p) == CallerRequest
ModifiedRequest(p) == <<"inject", p>>

\* "if (bOverrideExisting) ... else if (!Headers.Contains(Key))": is the
\* entry for key k written into the headers h
Written_Always(h, k) == TRUE
Written(h, k) == injectConfig.bOverrideExisting \/ k \notin DOMAIN h

\* the first loop of Call: the static headers merged into h
MergeStatic(h) ==
    LET add == {k \in DOMAIN injectConfig.Headers : Written(h, k)} IN
    [k \in DOMAIN h \cup add |->
        IF k \in add THEN injectConfig.Headers[k] ELSE h[k]]

\* the second loop of Call: the keys whose lazy provider is invoked on h
LazyInvoked_All(h) == injectConfig.LazyHeaders
LazyInvoked(h) == {k \in injectConfig.LazyHeaders : Written(h, k)}

MergeLazy_NeverOverrides(h) ==
    [k \in DOMAIN h \cup injectConfig.LazyHeaders |->
        IF k \in DOMAIN h THEN h[k] ELSE "lazy"]
MergeLazy(h) ==
    [k \in DOMAIN h \cup LazyInvoked(h) |->
        IF k \in LazyInvoked(h) THEN "lazy" ELSE h[k]]

\* the third loop of Call: the entries still to visit whose provider will
\* be awaited (the others are passed over)
AwaitCandidates(h, todo) == {k \in todo : Written(h, k)}

\* an entry of a call's log: it suspended on the provider of key ("await")
\* or on InnerService->Call ("inner"), or it was resumed by the provider
\* ("yield") or by the inner service with the result res ("resume")
InjectEvent(ev, key, res) == [ev |-> ev, key |-> key, res |-> res]

NoProviderCalls == [src \in {"lazy", "async"}, k \in HeaderKeys |-> 0]

NoRequest == [Url |-> <<>>, Headers |-> <<>>]

\* the caller constructed its request, one of reqs; no call made a copy yet
RequestStart(reqs) ==
    \E r \in reqs :
        requestObj = [o \in RequestObjects |->
                        IF o = CallerRequest THEN r ELSE NoRequest]

RequestIdle == requestObj = [o \in RequestObjects |-> NoRequest]

InjectStart ==
    /\ injectImpl \in InjectImpls
    /\ injectConfig \in InjectConfigs(injectImpl)
    /\ injectPc = [p \in Calls |-> "idle"]
    /\ asyncTodo = [p \in Calls |-> {}]
    /\ asyncKey = [p \in Calls |-> "none"]
    /\ injectSeen = [p \in Calls |-> NoRequest]
    /\ injectResult = [p \in Calls |-> DefaultResult]
    /\ providerCalls = [p \in Calls |-> NoProviderCalls]
    /\ injectLog = [p \in Calls |-> <<>>]

InjectIdle ==
    /\ injectImpl = "FInjectHeaderLayer"
    /\ injectConfig = [Headers |-> <<>>, LazyHeaders |-> {},
                       AsyncLazyHeaders |-> {}, bOverrideExisting |-> FALSE]
    /\ injectPc = [p \in Calls |-> "unused"]
    /\ asyncTodo = [p \in Calls |-> {}]
    /\ asyncKey = [p \in Calls |-> "none"]
    /\ injectSeen = [p \in Calls |-> NoRequest]
    /\ injectResult = [p \in Calls |-> DefaultResult]
    /\ providerCalls = [p \in Calls |-> NoProviderCalls]
    /\ injectLog = [p \in Calls |-> <<>>]

\* the third loop of Call, on the request objects objs with the entries
\* todo left and the provider invocations calls so far, up to the next
\* suspension: the co_await of a provider, or the co_await of
\* InnerService->Call(ModifiedRequest)
InjectAsyncLoop_AllAtOnce(p, objs, todo, calls, log) ==
    LET h == objs[ModifiedRequest(p)].Headers
        cand == AwaitCandidates(h, todo) IN
    IF cand = {}
    THEN /\ injectPc' = [injectPc EXCEPT ![p] = "inner"]
         /\ injectSeen' = [injectSeen EXCEPT ![p] = objs[ModifiedRequest(p)]]
         /\ asyncTodo' = [asyncTodo EXCEPT ![p] = {}]
         /\ asyncKey' = [asyncKey EXCEPT ![p] = "none"]
         /\ providerCalls' = calls
         /\ injectLog' = [injectLog EXCEPT ![p] =
              Append(log, InjectEvent("inner", "none", DefaultResult))]
    ELSE \E k \in cand :
         /\ injectPc' = [injectPc EXCEPT ![p] = "await"]
         /\ asyncKey' = [asyncKey EXCEPT ![p] = k]
         /\ asyncTodo' = [asyncTodo EXCEPT ![p] = todo \ {k}]
         /\ providerCalls' =
              [calls EXCEPT ![p] =
                 [src \in {"lazy", "async"}, j \in HeaderKeys |->
                    IF src = "async" /\ j \in cand
                    THEN calls[p][src, j] + 1 ELSE calls[p][src, j]]]
         /\ injectLog' = [injectLog EXCEPT ![p] =
              Append(log, InjectEvent("await", k, DefaultResult))
                \o [i \in 1..Cardinality(cand \ {k}) |->
                      InjectEvent("await", CHOOSE j \in cand : j # k,
                                  DefaultResult)]]
         /\ UNCHANGED injectSeen
InjectAsyncLoop(p, objs, todo, calls, log) ==
    LET h == objs[ModifiedRequest(p)].Headers
        cand == AwaitCandidates(h, todo) IN
    IF cand = {}
    THEN /\ injectPc' = [injectPc EXCEPT ![p] = "inner"]
         /\ injectSeen' = [injectSeen EXCEPT ![p] = objs[ModifiedRequest(p)]]
         /\ asyncTodo' = [asyncTodo EXCEPT ![p] = {}]
         /\ asyncKey' = [asyncKey EXCEPT ![p] = "none"]
         /\ providerCalls' = calls
         /\ injectLog' = [injectLog EXCEPT ![p] =
              Append(log, InjectEvent("inner", "none", DefaultResult))]
    ELSE \E k \in cand :
         /\ injectPc' = [injectPc EXCEPT ![p] = "await"]
         /\ asyncKey' = [asyncKey EXCEPT ![p] = k]
         /\ asyncTodo' = [asyncTodo EXCEPT ![p] = todo \ {k}]
         /\ providerCalls' = [calls EXCEPT ![p]["async", k] = @ + 1]
         /\ injectLog' = [injectLog EXCEPT ![p] =
              Append(log, InjectEvent("await", k, DefaultResult))]
         /\ UNCHANGED injectSeen

\* Call is entered: the copy, the static loop, the lazy loop, and the async
\* loop up to its first suspension
InjectCall(p) ==
    /\ injectPc[p] = "idle"
    /\ LET copied == [requestObj EXCEPT ![<<"inject", p>>] =
                                            requestObj[CallerRequest]]
           h0 == copied[ModifiedRequest(p)].Headers
           h1 == MergeStatic(h0)
           h2 == MergeLazy(h1)
           objs == [copied EXCEPT ![ModifiedRequest(p)].Headers = h2]
           calls == [providerCalls EXCEPT ![p] =
                       [src \in {"lazy", "async"}, k \in HeaderKeys |->
                          IF src = "lazy" /\ k \in LazyInvoked(h1)
                          THEN 1 ELSE 0]] IN
       /\ requestObj' = objs
       /\ InjectAsyncLoop(p, objs, injectConfig.AsyncLazyHeaders, calls,
                          injectLog[p])
    /\ UNCHANGED <<injectImpl, injectConfig, injectResult, notInjectVars>>

\* the awaited provider yields v: the header is written and the async loop
\* goes on to its next suspension
InjectProviderReturn(p, v) ==
    /\ injectPc[p] = "await"
    /\ LET o == ModifiedRequest(p)
           h == requestObj[o].Headers
           k == asyncKey[p]
           written == [j \in DOMAIN h \cup {k} |-> IF j = k THEN v ELSE h[j]]
           objs == [requestObj EXCEPT ![o].Headers = written] IN
       /\ requestObj' = objs
       /\ InjectAsyncLoop(p, objs, asyncTodo[p], providerCalls,
                          Append(injectLog[p],
                                 InjectEvent("yield", asyncKey[p],
                                             DefaultResult)))
    /\ UNCHANGED <<injectImpl, injectConfig, injectResult, notInjectVars>>

\* "co_return co_await InnerService->Call(ModifiedRequest);"
InjectInnerReturn(p, res) ==
    /\ injectPc[p] = "inner"
    /\ injectPc' = [injectPc EXCEPT ![p] = "done"]
    /\ injectResult' = [injectResult EXCEPT ![p] = res]
    /\ injectLog' = [injectLog EXCEPT ![p] =
                       Append(@, InjectEvent("resume", "none", res))]
    /\ UNCHANGED <<injectImpl, injectConfig, requestObj, asyncTodo, asyncKey,
                   injectSeen, providerCalls, notInjectVars>>

(***************************************************************************)
(* FHttpOriginLayer                                                        *)
(*                                                                         *)
(* An FString is the sequence of its characters.                           *)
(***************************************************************************)
HttpPrefix == <<"h", "t", "t", "p", ":", "/", "/">>
HttpsPrefix == <<"h", "t", "t", "p", "s", ":", "/", "/">>
ExampleOrigin ==
    HttpsPrefix \o <<"e", "x", "a", "m", "p", "l", "e", ".", "c", "o", "m">>

\* the origins a layer is constructed with, or a provider yields
Origins ==
    SeqsUpTo({"/", "o"}, MaxUrl) \cup {ExampleOrigin, ExampleOrigin \o <<"/">>}

\* request targets that do not start with a scheme; the last is a near miss
RelativeTargets ==
    SeqsUpTo({"/", "a"}, MaxUrl)
    \cup {<<"/", "a", "/", "b">>, <<"a", "/", "b">>,
          <<"h", "t", "t", "p", ":", "/", "a">>}

AbsoluteTargets ==
    {HttpPrefix \o <<"h">>,
     <<"H", "T", "T", "P", "S", ":", "/", "/", "h">>,
     <<"H", "t", "t", "P", ":", "/", "/">>}

OriginRequests ==
    [Url : RelativeTargets \cup AbsoluteTargets,
     Headers : {[k \in {"X"} |-> "orig"]}]

\* ESearchCase::IgnoreCase, on the letters that occur
ToLower(c) ==
    CASE c = "H" -> "h" [] c = "T" -> "t" [] c = "P" -> "p" [] c = "S" -> "s"
      [] OTHER -> c

\* FString::StartsWith(Prefix, ESearchCase::IgnoreCase)
StartsWithIgnoreCase(str, prefix) ==
    /\ Len(str) >= Len(prefix)
    /\ \A i \in 1..Len(prefix) : ToLower(str[i]) = ToLower(prefix[i])

\* FString::StartsWith(Prefix, ESearchCase::CaseSensitive)
StartsWithCaseSensitive(str, prefix) ==
    /\ Len(str) >= Len(prefix)
    /\ SubSeq(str, 1, Len(prefix)) = prefix

IsAbsoluteUrl_CaseSensitive(url) ==
    \/ StartsWithCaseSensitive(url, HttpPrefix)
    \/ StartsWithCaseSensitive(url, HttpsPrefix)
IsAbsoluteUrl(url) ==
    \/ StartsWithIgnoreCase(url, HttpPrefix)
    \/ StartsWithIgnoreCase(url, HttpsPrefix)

\* CombineUrl of HttpService.h: "while (OriginEnd > 0 &&
\* BaseOrigin[OriginEnd - 1] == '/') --OriginEnd;" (indices from 0)
RECURSIVE OriginEndFrom(_, _)
OriginEndFrom(BaseOrigin, OriginEnd) ==
    IF OriginEnd > 0 /\ BaseOrigin[OriginEnd] = "/"
    THEN OriginEndFrom(BaseOrigin, OriginEnd - 1)
    ELSE OriginEnd

\* "while (PathStart < RelativePath.Len() && RelativePath[PathStart] == '/')
\* ++PathStart;" (indices from 0)
RECURSIVE PathStartFrom(_, _)
PathStartFrom(RelativePath, PathStart) ==
    IF PathStart < Len(RelativePath) /\ RelativePath[PathStart + 1] = "/"
    THEN PathStartFrom(RelativePath, PathStart + 1)
    ELSE PathStart

CombineUrlByIndex(BaseOrigin, RelativePath) ==
    LET OriginEnd == OriginEndFrom(BaseOrigin, Len(BaseOrigin))
        NormalizedOrigin == SubSeq(BaseOrigin, 1, OriginEnd)
        PathStart == PathStartFrom(RelativePath, 0)
        NormalizedPath ==
            SubSeq(RelativePath, PathStart + 1, Len(RelativePath)) IN
    IF Len(NormalizedPath) = 0
    THEN NormalizedOrigin
    ELSE NormalizedOrigin \o <<"/">> \o NormalizedPath

\* CombineUrl of HttpOriginLayer.h: "while (NormalizedOrigin.EndsWith("/"))
\* NormalizedOrigin.RemoveFromEnd("/");"
RECURSIVE RemoveAllFromEnd(_)
RemoveAllFromEnd(str) ==
    IF str # <<>> /\ str[Len(str)] = "/"
    THEN RemoveAllFromEnd(SubSeq(str, 1, Len(str) - 1))
    ELSE str

\* "while (NormalizedPath.StartsWith("/")) NormalizedPath.RemoveFromStart("/");"
RECURSIVE RemoveAllFromStart(_)
RemoveAllFromStart(str) ==
    IF str # <<>> /\ Head(str) = "/"
    THEN RemoveAllFromStart(Tail(str))
    ELSE str

CombineUrlByRemoval(BaseOrigin, RelativePath) ==
    LET NormalizedOrigin == RemoveAllFromEnd(BaseOrigin)
        NormalizedPath == RemoveAllFromStart(RelativePath) IN
    IF NormalizedPath = <<>>
    THEN NormalizedOrigin
    ELSE NormalizedOrigin \o <<"/">> \o NormalizedPath

\* FHttpOriginLayer of HttpService.h (static origin, or provider and cache),
\* and its revision in HttpOriginLayer.h (static origin only)
OriginImpls == {"FHttpOriginLayer", "FHttpOriginLayer.StaticOnly"}

CombineUrl_KeepSlashes(BaseOrigin, RelativePath) ==
    BaseOrigin \o <<"/">> \o RelativePath
CombineUrl(BaseOrigin, RelativePath) ==
    IF originImpl = "FHttpOriginLayer"
    THEN CombineUrlByIndex(BaseOrigin, RelativePath)
    ELSE CombineUrlByRemoval(BaseOrigin, RelativePath)

\* the two constructors: a static origin, or a provider (and Origin empty)
OriginConfigs(impl) ==
    {[Origin |-> o, HasProvider |-> FALSE] : o \in Origins}
    \cup IF impl = "FHttpOriginLayer"
         THEN {[Origin |-> <<>>, HasProvider |-> TRUE]}
         ELSE {}

\* what the OriginProvider may yield when awaited
ProviderYields == {<<>>, <<"o", "/">>, ExampleOrigin}

\* TOptional<FString>
Unset == [IsSet |-> FALSE, Value |-> <<>>]
SetTo(v) == [IsSet |-> TRUE, Value |-> v]

\* FString::IsEmpty
IsEmpty_Never(str) == FALSE
IsEmpty(str) == str = <<>>

\* "if (!ProviderResult.IsEmpty()) CachedOrigin = ProviderResult;"
Cacheable_Always(ProviderResult) == TRUE
Cacheable(ProviderResult) == ~IsEmpty(ProviderResult)

InvalidUrl == MakeError([code |-> "InvalidUrl", seq |-> 0])

\* "const FHttpRequest ModifiedRequest = Request;": the object the call p
\* writes the combined Url to
OriginModifiedRequest_AliasesRequest(p) == CallerRequest
OriginModifiedRequest(p) == <<"origin", p>>

FreshOriginHist ==
    [target |-> <<>>, cacheAtEntry |-> Unset, cacheReads |-> 0,
     cacheWrites |-> 0, providerCalls |-> 0, yielded |-> <<>>,
     resolved |-> <<>>, innerCalls |-> 0, seen |-> NoRequest]

\* two concurrent callers of one Call each, or one caller of Calls in a row
OriginBudgets ==
    {[p \in Calls |-> 1],
     [p \in Calls |-> IF p = "p" THEN MaxOriginCalls ELSE 0]}

OriginStart ==
    /\ originImpl \in OriginImpls
    /\ originConfig \in OriginConfigs(originImpl)
    /\ CachedOrigin = Unset
    /\ originPc = [p \in Calls |-> "idle"]
    /\ originResult = [p \in Calls |-> DefaultResult]
    /\ originBudget \in OriginBudgets
    /\ originHist = [p \in Calls |-> FreshOriginHist]
    /\ originLog = <<>>

OriginIdle ==
    /\ originImpl = "FHttpOriginLayer"
    /\ originConfig = [Origin |-> <<>>, HasProvider |-> FALSE]
    /\ CachedOrigin = Unset
    /\ originPc = [p \in Calls |-> "unused"]
    /\ originResult = [p \in Calls |-> DefaultResult]
    /\ originBudget = [p \in Calls |-> 0]
    /\ originHist = [p \in Calls |-> FreshOriginHist]
    /\ originLog = <<>>

\* Call from "if (ResolvedOrigin.IsEmpty())" on, with h the history of the
\* call so far: the InvalidUrl error, or the copy with the combined Url and
\* the co_await of InnerService->Call(ModifiedRequest)
OriginResolved(p, ResolvedOrigin, h) ==
    LET Request == requestObj[CallerRequest] IN
    IF IsEmpty(ResolvedOrigin)
    THEN /\ originResult' = [originResult EXCEPT ![p] = InvalidUrl]
         /\ originPc' = [originPc EXCEPT ![p] = "done"]
         /\ originHist' = [originHist EXCEPT ![p] = h]
         /\ originLog' = Append(originLog, [h |-> h, result |-> InvalidUrl])
         /\ UNCHANGED requestObj
    ELSE LET copied == [requestObj EXCEPT ![<<"origin", p>>] = Request]
             objs == [copied EXCEPT ![OriginModifiedRequest(p)].Url =
                         CombineUrl(ResolvedOrigin, Request.Url)] IN
         /\ requestObj' = objs
         /\ originPc' = [originPc EXCEPT ![p] = "inner"]
         /\ originHist' =
              [originHist EXCEPT ![p] =
                 [h EXCEPT !.resolved = ResolvedOrigin,
                           !.innerCalls = @ + 1,
                           !.seen = objs[OriginModifiedRequest(p)]]]
         /\ UNCHANGED <<originResult, originLog>>

\* Call is entered, up to its first suspension or its co_return
OriginCall(p) ==
    /\ originPc[p] \in {"idle", "done"}
    /\ originBudget[p] > 0
    /\ originBudget' = [originBudget EXCEPT ![p] = @ - 1]
    /\ LET Request == requestObj[CallerRequest]
           h == [FreshOriginHist EXCEPT !.target = Request.Url] IN
       IF IsAbsoluteUrl(Request.Url)
       THEN \* "co_return co_await InnerService->Call(Request);"
            /\ originPc' = [originPc EXCEPT ![p] = "inner"]
            /\ originHist' = [originHist EXCEPT ![p] =
                                [h EXCEPT !.innerCalls = 1, !.seen = Request]]
            /\ UNCHANGED <<requestObj, CachedOrigin, originResult, originLog>>
       ELSE IF originConfig.HasProvider
       THEN LET hr == [h EXCEPT !.cacheReads = 1,
                                !.cacheAtEntry = CachedOrigin]
                ResolvedOrigin == IF CachedOrigin.IsSet
                                  THEN CachedOrigin.Value ELSE <<>> IN
            IF IsEmpty(ResolvedOrigin)
            THEN \* "co_await OriginProvider()"
                 /\ originPc' = [originPc EXCEPT ![p] = "await"]
                 /\ originHist' = [originHist EXCEPT ![p] =
                                     [hr EXCEPT !.providerCalls = 1]]
                 /\ UNCHANGED <<requestObj, CachedOrigin, originResult,
                                originLog>>
            ELSE /\ OriginResolved(p, ResolvedOrigin, hr)
                 /\ UNCHANGED CachedOrigin
       ELSE /\ OriginResolved(p, originConfig.Origin, h)
            /\ UNCHANGED CachedOrigin
    /\ UNCHANGED <<originImpl, originConfig, notOriginVars>>

\* the awaited OriginProvider yields ProviderResult
OriginProviderReturn(p, ProviderResult) ==
    /\ originPc[p] = "await"
    /\ LET stored == Cacheable(ProviderResult)
           h == [originHist[p] EXCEPT
                    !.yielded = Append(@, ProviderResult),
                    !.cacheWrites = IF stored THEN @ + 1 ELSE @] IN
       /\ CachedOrigin' = IF stored THEN SetTo(ProviderResult)
                          ELSE CachedOrigin
       /\ OriginResolved(p, ProviderResult, h)
    /\ UNCHANGED <<originImpl, originConfig, originBudget, notOriginVars>>

\* "co_return co_await InnerService->Call(...)": the inner call completed
OriginInnerReturn(p, res) ==
    /\ originPc[p] = "inner"
    /\ originPc' = [originPc EXCEPT ![p] = "done"]
    /\ originResult' = [originResult EXCEPT ![p] = res]
    /\ originLog' = Append(originLog, [h |-> originHist[p], result |-> res])
    /\ UNCHANGED <<originImpl, originConfig, CachedOrigin, originBudget,
                   originHist, requestObj, notOriginVars>>

(***************************************************************************)
(* TServiceBuilder: New(S).Layer(L1)...Build(), and a Call on the result   *)
(*                                                                         *)
(* Service objects are numbered in the order they are created; the base    *)
(* service is 1.  A layer's service may call its InnerService (any number  *)
(* of times up to MaxDelegations, as the retry service does) or co_return  *)
(* without calling it (as the origin service does on an empty origin).     *)
(***************************************************************************)
Layers == {"L1", "L2", "L3"}

BaseService == "S"

\* "auto WrappedService = InLayer.Wrap(CurrentService);": the service the
\* layer wraps
WrapArgument_Base(current) == 1
WrapArgument(current) == current

ChainStart ==
    /\ builderPc = "empty"
    /\ CurrentService = 0
    /\ svcLayer = <<>>
    /\ svcInner = <<>>
    /\ applied = <<>>
    /\ builtService = 0
    /\ chainStack = <<>>
    /\ chainTrace = <<>>
    /\ chainResult = DefaultResult

ChainIdle ==
    /\ builderPc = "unused"
    /\ CurrentService = 0
    /\ svcLayer = <<>>
    /\ svcInner = <<>>
    /\ applied = <<>>
    /\ builtService = 0
    /\ chainStack = <<>>
    /\ chainTrace = <<>>
    /\ chainResult = DefaultResult

\* TServiceBuilder<>::New(InService)
BuilderNew ==
    /\ builderPc = "empty"
    /\ builderPc' = "building"
    /\ svcLayer' = <<BaseService>>
    /\ svcInner' = <<0>>
    /\ CurrentService' = 1
    /\ UNCHANGED <<applied, builtService, chainStack, chainTrace, chainResult,
                   notChainVars>>

\* TServiceBuilder::Layer(InLayer): Wrap makes a new service object around
\* the current one; the returned builder holds the new service
BuilderLayer(L) ==
    /\ builderPc = "building"
    /\ Len(applied) < MaxLayers
    /\ svcLayer' = Append(svcLayer, L)
    /\ svcInner' = Append(svcInner, WrapArgument(CurrentService))
    /\ CurrentService' = Len(svcLayer) + 1
    /\ applied' = Append(applied, L)
    /\ UNCHANGED <<builderPc, builtService, chainStack, chainTrace,
                   chainResult, notChainVars>>

\* TServiceBuilder::Build()
BuilderBuild ==
    /\ builderPc = "building"
    /\ builderPc' = "built"
    /\ builtService' = CurrentService
    /\ UNCHANGED <<CurrentService, svcLayer, svcInner, applied, chainStack,
                   chainTrace, chainResult, notChainVars>>

\* the caller makes a Call on the service Build() returned
ChainCall ==
    /\ builderPc = "built"
    /\ chainTrace = <<>>
    /\ chainStack' = <<[svc |-> builtService, delegations |-> 0]>>
    /\ chainTrace' = <<[event |-> "enter", svc |-> builtService]>>
    /\ UNCHANGED <<builderPc, CurrentService, svcLayer, svcInner, applied,
                   builtService, chainResult, notChainVars>>

\* the innermost Call in progress does "co_await InnerService->Call(...)"
ChainDelegate ==
    /\ chainStack # <<>>
    /\ LET n == Len(chainStack)
           top == chainStack[n] IN
       /\ svcInner[top.svc] # 0
       /\ top.delegations < MaxDelegations
       /\ chainStack' =
            Append([chainStack EXCEPT ![n].delegations = @ + 1],
                   [svc |-> svcInner[top.svc], delegations |-> 0])
       /\ chainTrace' =
            Append(chainTrace, [event |-> "enter", svc |-> svcInner[top.svc]])
    /\ UNCHANGED <<builderPc, CurrentService, svcLayer, svcInner, applied,
                   builtService, chainResult, notChainVars>>

\* what the service of a Call in progress may co_return: the base service
\* its response or error, a layer's service the result of its inner call,
\* or an error of its own if it made no inner call
ChainOutcomes(frame) ==
    IF svcInner[frame.svc] = 0 THEN RateInnerOutcomes
    ELSE IF frame.delegations = 0 THEN {DefaultResult}
    ELSE {chainResult}

\* the innermost Call in progress co_returns res to its caller
ChainReturn(res) ==
    /\ chainStack # <<>>
    /\ LET n == Len(chainStack)
           top == chainStack[n] IN
       /\ res \in ChainOutcomes(top)
       /\ chainStack' = SubSeq(chainStack, 1, n - 1)
       /\ chainTrace' = Append(chainTrace, [event |-> "exit", svc |-> top.svc])
       /\ chainResult' = res
    /\ UNCHANGED <<builderPc, CurrentService, svcLayer, svcInner, applied,
                   builtService, notChainVars>>

(***************************************************************************)
(* Chains of stock layers: what each layer's service does with the result  *)
(* of its inner call.  The retry layers have MaxAttempts = MaxDelegations  *)
(* and a Challenge that may reject any value; a rate-limited service may   *)
(* find no token.                                                          *)
(***************************************************************************)
StockLayers == {"TRetryLayer", "TRateLimitLayer", "FJsonLayer"}

JsonValue == MakeValue([tag |-> "json", seq |-> 0])

\* may the service made by layer L, having made n inner calls, make another
StockDelegates(L, n) ==
    IF L = "TRetryLayer" THEN n < MaxDelegations ELSE n = 0

\* what the service made by layer L may co_return after n inner calls, the
\* last of which returned Result
StockOutcomes_ErrorAsValue(L, n, Result) ==
    IF L = BaseService THEN RateInnerOutcomes
    ELSE IF n = 0 THEN {DefaultResult}
    ELSE {JsonValue}
StockOutcomes(L, n, Result) ==
    CASE L = BaseService -> RateInnerOutcomes
      [] L = "TRetryLayer" ->
           IF n > 0 /\ (Result.valid \/ n >= MaxDelegations)
           THEN {Result} ELSE {}
      [] L = "TRateLimitLayer" ->
           IF n = 0 THEN {RateLimitTimeout, DefaultResult} ELSE {Result}
      [] L = "FJsonLayer" ->
           IF n = 0 THEN {}
           ELSE IF ~Result.valid THEN {PropagatedError(Result)}
           ELSE {JsonValue}

\* the innermost Call in progress, of a stock layer's service, calls its
\* inner service
StockDelegate ==
    /\ chainStack # <<>>
    /\ LET top == chainStack[Len(chainStack)] IN
       StockDelegates(svcLayer[top.svc], top.delegations)
    /\ ChainDelegate

\* the innermost Call in progress co_returns res to its caller
StockReturn(res) ==
    /\ chainStack # <<>>
    /\ LET n == Len(chainStack)
           top == chainStack[n] IN
       /\ res \in StockOutcomes(svcLayer[top.svc], top.delegations,
                                chainResult)
       /\ chainStack' = SubSeq(chainStack, 1, n - 1)
       /\ chainTrace' = Append(chainTrace,
                           [event |-> "exit", svc |-> top.svc, res |-> res])
       /\ chainResult' = res
    /\ UNCHANGED <<builderPc, CurrentService, svcLayer, svcInner, applied,
                   builtService, notChainVars>>

(***************************************************************************)
(* FHttpClient::Call, the base transport over the engine's HTTP module     *)
(***************************************************************************)
EHttpMethod == {"Get", "Post", "Put", "Delete", "Patch", "Head"}

ToVerb(Method) ==
    CASE Method = "Get" -> "GET"
      [] Method = "Post" -> "POST"
      [] Method = "Put" -> "PUT"
      [] Method = "Delete" -> "DELETE"
      [] Method = "Patch" -> "PATCH"
      [] Method = "Head" -> "HEAD"
      [] OTHER -> "GET"

\* the requests a Call is made with
ClientRequests ==
    [Url : {<<>>, <<"/", "a">>, HttpPrefix \o <<"h">>},
     Method : EHttpMethod,
     Headers : Maps({"Content-Type", "X"}, {"h"}),
     ContentType : {"", "application/json"},
     Body : {<<>>, <<120>>},
     TimeoutSeconds : {-1, 0, 5}]

\* no IHttpRequest
NoHttpReq ==
    [URL |-> <<>>, Verb |-> "", Timeout |-> 0, Headers |-> <<>>,
     Content |-> <<>>]

\* lines as IHttpResponse::GetAllHeaders gives them
HeaderLine == <<"K", ":", " ", "v">>
HeaderLineNoKey == <<":", "v">>
HeaderLineNoColon == <<"K">>
HeaderLineAgain == <<"K", ":", "w", ":">>

ResponseHeaderLists ==
    {<<>>, <<HeaderLine>>, <<HeaderLineNoKey, HeaderLineNoColon>>,
     <<HeaderLine, HeaderLineAgain>>}

StatusCodes == {199, 200, 204, 299, 300, 404}

\* what ProcessAsync may resume the Call with: the response object (or
\* none) and whether the engine reports a connection
NoHttpResponse ==
    [bConnected |-> FALSE, IsValid |-> FALSE, ResponseCode |-> 0,
     ContentType |-> "", AllHeaders |-> <<>>, Content |-> <<>>]

HttpOutcomesOfEngine ==
    [bConnected : BOOLEAN, IsValid : {TRUE}, ResponseCode : StatusCodes,
     ContentType : {"", "text/plain"}, AllHeaders : ResponseHeaderLists,
     Content : {<<>>, <<120>>}]
    \cup {[NoHttpResponse EXCEPT !.bConnected = c] : c \in BOOLEAN}

\* FString::FindChar: the index (from 0) of the first c, or -1
RECURSIVE FindCharFrom(_, _, _)
FindCharFrom(Line, c, i) ==
    IF i > Len(Line) THEN -1
    ELSE IF Line[i] = c THEN i - 1
    ELSE FindCharFrom(Line, c, i + 1)

\* ParseHeaders, from the lines left and the map built so far
RECURSIVE ParseHeadersFrom(_, _)
ParseHeadersFrom(lines, out) ==
    IF lines = <<>> THEN out
    ELSE LET Line == Head(lines)
             ColonIndex == FindCharFrom(Line, ":", 1) IN
         IF ColonIndex > 0
         THEN LET Key == TrimStartAndEnd(SubSeq(Line, 1, ColonIndex))
                  Value == TrimStartAndEnd(
                               SubSeq(Line, ColonIndex + 2, Len(Line))) IN
              ParseHeadersFrom(Tail(lines),
                  [k \in DOMAIN out \cup {Key} |->
                      IF k = Key THEN Value ELSE out[k]])
         ELSE ParseHeadersFrom(Tail(lines), out)

ParseHeaders(InAllHeaders) == ParseHeadersFrom(InAllHeaders, <<>>)

\* "if (Request.Url.IsEmpty()) co_return MakeError(InvalidUrl::MakeError());"
UrlRejected_Never(Request) == FALSE
UrlRejected(Request) == IsEmpty(Request.Url)

\* the IHttpRequest after SetURL, SetVerb, SetTimeout, SetHeader, SetContent
FilledHttpReq(Request) ==
    [URL |-> Request.Url,
     Verb |-> ToVerb(Request.Method),
     Timeout |-> IF Request.TimeoutSeconds > 0
                 THEN Request.TimeoutSeconds ELSE 0,
     Headers |->
        IF Request.ContentType # ""
             /\ "Content-Type" \notin DOMAIN Request.Headers
        THEN [k \in DOMAIN Request.Headers \cup {"Content-Type"} |->
                 IF k = "Content-Type" THEN Request.ContentType
                 ELSE Request.Headers[k]]
        ELSE Request.Headers,
     Content |-> IF Len(Request.Body) > 0 THEN Request.Body ELSE <<>>]

ConnectionFailed == MakeError([code |-> "ConnectionFailed", seq |-> 0])

ResponseOut_SucceededBelow300(req, Response) ==
    [Url |-> req.URL,
     StatusCode |-> Response.ResponseCode,
     ContentType |-> Response.ContentType,
     bSucceeded |-> Response.ResponseCode < 300,
     Headers |-> ParseHeaders(Response.AllHeaders),
     Body |-> Response.Content]

\* the FHttpResponse built from the engine's response
ResponseOut(req, Response) ==
    [Url |-> req.URL,
     StatusCode |-> Response.ResponseCode,
     ContentType |-> Response.ContentType,
     bSucceeded |-> Response.ResponseCode >= 200
                      /\ Response.ResponseCode < 300,
     Headers |-> ParseHeaders(Response.AllHeaders),
     Body |-> Response.Content]

ClientStart ==
    /\ clientRequest \in ClientRequests
    /\ clientPc = "idle"
    /\ httpReq = NoHttpReq
    /\ httpCreated = 0
    /\ httpDispatched = 0
    /\ httpResponse = NoHttpResponse
    /\ clientResult = DefaultResult

ClientIdle ==
    /\ clientRequest = [Url |-> <<>>, Method |-> "Get", Headers |-> <<>>,
                        ContentType |-> "", Body |-> <<>>,
                        TimeoutSeconds |-> 0]
    /\ clientPc = "unused"
    /\ httpReq = NoHttpReq
    /\ httpCreated = 0
    /\ httpDispatched = 0
    /\ httpResponse = NoHttpResponse
    /\ clientResult = DefaultResult

\* Call is entered: the validation, and for a request that passes it the
\* creation of the IHttpRequest up to "co_await ProcessAsync(HttpReq)"
ClientCall ==
    /\ clientPc = "idle"
    /\ IF UrlRejected(clientRequest)
       THEN /\ clientResult' = InvalidUrl
            /\ clientPc' = "done"
            /\ UNCHANGED <<httpReq, httpCreated, httpDispatched>>
       ELSE /\ httpReq' = FilledHttpReq(clientRequest)
            /\ httpCreated' = httpCreated + 1
            /\ httpDispatched' = httpDispatched + 1
            /\ clientPc' = "await"
            /\ UNCHANGED clientResult
    /\ UNCHANGED <<clientRequest, httpResponse, notClientVars>>

\* ProcessAsync resumes the Call with Response
ClientResponse(Response) ==
    /\ clientPc = "await"
    /\ httpResponse' = Response
    /\ clientResult' =
         IF ~Response.bConnected \/ ~Response.IsValid
         THEN ConnectionFailed
         ELSE MakeValue(ResponseOut(httpReq, Response))
    /\ clientPc' = "done"
    /\ UNCHANGED <<clientRequest, httpReq, httpCreated, httpDispatched,
                   notClientVars>>

(***************************************************************************)
(* The critical sections, one statement at a time                          *)
(*                                                                         *)
(* Calls made from several threads on one FRateLimitService, or on one     *)
(* FHttpOriginService with an OriginProvider.  An action is one of: taking *)
(* the lock (FScopeLock's constructor), a statement of the locked block,   *)
(* the end of the lock's scope together with the code up to the next       *)
(* suspension point, or the resumption after one.                          *)
(***************************************************************************)
NoHolder == "none"

\* FScopeLock's constructor returns only when no other thread holds the lock
Free_NoExclusion(lock) == TRUE
Free(lock) == lock = NoHolder

\* the end of an FScopeLock's scope, reached by call p: the lock is released
Released_KeptByCall(p) == p
Released(p) == NoHolder

\* two threads that make two Calls each, or one that makes Calls in a row
ThreadBudgets ==
    {[p \in Calls |-> 2],
     [p \in Calls |-> IF p = "p" THEN MaxBucket + 1 ELSE 0]}

FreshFrame == [WaitTime |-> 0, ProviderResult |-> <<>>]

LockIdle ==
    /\ Mutex = NoHolder
    /\ CacheLock = NoHolder
    /\ locals = [p \in Calls |-> FreshFrame]

\* Call is entered on service A: in blocking mode WaitForToken reads
\* StartTime; both modes go on to take Mutex.  (The history counts a
\* thread's attempts and acquisitions over all its calls, its delays per
\* call.)
ThreadCall(p) ==
    /\ callPc[p] \in {"idle", "done"}
    /\ callBudget[p] > 0
    /\ callBudget' = [callBudget EXCEPT ![p] = @ - 1]
    /\ wrapped["A"]
    /\ callSvc' = [callSvc EXCEPT ![p] = "A"]
    /\ StartTime' = [StartTime EXCEPT ![p] =
                        IF rateConfig.bWaitForToken
                             /\ rateConfig.MaxWaitSeconds > 0
                        THEN now ELSE 0]
    /\ callPc' = [callPc EXCEPT ![p] = "lock"]
    /\ callHist' = [callHist EXCEPT ![p].sleeps = 0, ![p].waited = 0]
    /\ UNCHANGED <<now, rateConfig, wrapped, CurrentTokens, LastRefillTime,
                   wakeAt, callResult, svcHist, lockVars, notRateLockVars>>

\* "FScopeLock Lock(&Mutex);"
MutexLock(p) ==
    /\ callPc[p] = "lock"
    /\ Free(Mutex)
    /\ Mutex' = p
    /\ callPc' = [callPc EXCEPT ![p] = "refill"]
    /\ UNCHANGED <<now, rateConfig, wrapped, CurrentTokens, LastRefillTime,
                   callSvc, StartTime, wakeAt, callResult, callBudget,
                   callHist, svcHist, CacheLock, locals, notRateLockVars>>

\* "RefillTokens();"
LockedRefill(p) ==
    LET b == BucketOf(callSvc[p]) IN
    /\ callPc[p] = "refill"
    /\ CurrentTokens' = [CurrentTokens EXCEPT ![b] = RefilledTokens(b)]
    /\ LastRefillTime' = [LastRefillTime EXCEPT ![b] = RefilledTime(b)]
    /\ callPc' = [callPc EXCEPT ![p] = "test"]
    /\ UNCHANGED <<now, rateConfig, wrapped, callSvc, StartTime, wakeAt,
                   callResult, callBudget, callHist, svcHist, lockVars,
                   notRateLockVars>>

\* "if (CurrentTokens >= 1.0)"; in TryAcquireToken a failed test is
\* "return false", which ends the lock's scope, and Call co_returns TResult()
LockedTest(p) ==
    LET b == BucketOf(callSvc[p]) IN
    /\ callPc[p] = "test"
    /\ IF HasToken(CurrentTokens[b])
       THEN /\ callPc' = [callPc EXCEPT ![p] = "take"]
            /\ UNCHANGED <<Mutex, callResult, callHist>>
       ELSE IF rateConfig.bWaitForToken
       THEN /\ callPc' = [callPc EXCEPT ![p] = "missing"]
            /\ UNCHANGED <<Mutex, callResult, callHist>>
       ELSE /\ Mutex' = Released(p)
            /\ callPc' = [callPc EXCEPT ![p] = "done"]
            /\ callResult' = [callResult EXCEPT ![p] = DefaultResult]
            /\ callHist' = [callHist EXCEPT ![p].tries = @ + 1]
    /\ UNCHANGED <<now, rateConfig, wrapped, CurrentTokens, LastRefillTime,
                   callSvc, StartTime, wakeAt, callBudget, svcHist,
                   CacheLock, locals, notRateLockVars>>

\* "CurrentTokens -= 1.0; return true;" (or co_return true): the lock's scope
\* ends and Call goes on to co_await InnerService->Call(Request)
LockedTake(p) ==
    LET b == BucketOf(callSvc[p]) IN
    /\ callPc[p] = "take"
    /\ CurrentTokens' = [CurrentTokens EXCEPT ![b] = @ - TokenUnit]
    /\ Mutex' = Released(p)
    /\ callPc' = [callPc EXCEPT ![p] = "inner"]
    /\ callHist' = [callHist EXCEPT ![p].tries = @ + 1,
                                    ![p].inner = @ + 1,
                                    ![p].acquired = TRUE]
    /\ UNCHANGED <<now, rateConfig, wrapped, LastRefillTime, callSvc,
                   StartTime, wakeAt, callResult, callBudget, svcHist,
                   CacheLock, locals, notRateLockVars>>

\* "Missing = 1.0 - CurrentTokens; WaitTime = Missing / TokensPerSecond;"
\* and the end of the lock's scope
LockedMissing(p) ==
    LET b == BucketOf(callSvc[p]) IN
    /\ callPc[p] = "missing"
    /\ locals' = [locals EXCEPT ![p].WaitTime = TokenUnit - CurrentTokens[b]]
    /\ Mutex' = Released(p)
    /\ callPc' = [callPc EXCEPT ![p] = "check"]
    /\ callHist' = [callHist EXCEPT ![p].tries = @ + 1]
    /\ UNCHANGED <<now, rateConfig, wrapped, CurrentTokens, LastRefillTime,
                   callSvc, StartTime, wakeAt, callResult, callBudget,
                   svcHist, CacheLock, notRateLockVars>>

\* the timeout check and the clamp after the locked block, up to
\* "co_await Latent::Seconds(WaitTime)" or to the loop's head
WaitCheck(p) ==
    LET Remaining == RemainingTime(StartTime[p])
        Clamped == IF rateConfig.MaxWaitSeconds > 0
                        /\ locals[p].WaitTime > Remaining
                   THEN Remaining ELSE locals[p].WaitTime IN
    /\ callPc[p] = "check"
    /\ IF TimedOut(StartTime[p])
       THEN /\ callPc' = [callPc EXCEPT ![p] = "done"]
            /\ callResult' = [callResult EXCEPT ![p] = RateLimitTimeout]
            /\ UNCHANGED <<wakeAt, locals, callHist>>
       ELSE /\ locals' = [locals EXCEPT ![p].WaitTime = Clamped]
            /\ IF Clamped > 0
               THEN /\ callPc' = [callPc EXCEPT ![p] = "sleep"]
                    /\ wakeAt' = [wakeAt EXCEPT ![p] = now + Clamped]
                    /\ callHist' = [callHist EXCEPT
                                        ![p].sleeps = @ + 1,
                                        ![p].waited = @ + Clamped]
               ELSE /\ callPc' = [callPc EXCEPT ![p] = "lock"]
                    /\ UNCHANGED <<wakeAt, callHist>>
            /\ UNCHANGED callResult
    /\ UNCHANGED <<now, rateConfig, wrapped, CurrentTokens, LastRefillTime,
                   callSvc, StartTime, callBudget, svcHist, Mutex, CacheLock,
                   notRateLockVars>>

\* the Latent::Seconds delay is over and the loop goes round
WaitResume(p) ==
    /\ callPc[p] = "sleep"
    /\ now >= wakeAt[p]
    /\ callPc' = [callPc EXCEPT ![p] = "lock"]
    /\ UNCHANGED <<now, rateConfig, wrapped, CurrentTokens, LastRefillTime,
                   callSvc, StartTime, wakeAt, callResult, callBudget,
                   callHist, svcHist, lockVars, notRateLockVars>>

\* FHttpOriginService::Call is entered: a relative target on a service with
\* an OriginProvider goes on to take CacheLock; the other branches touch no
\* lock
CacheCall(p) ==
    LET Request == requestObj[CallerRequest] IN
    IF ~IsAbsoluteUrl(Request.Url) /\ originConfig.HasProvider
    THEN /\ originPc[p] \in {"idle", "done"}
         /\ originBudget[p] > 0
         /\ originBudget' = [originBudget EXCEPT ![p] = @ - 1]
         /\ originPc' = [originPc EXCEPT ![p] = "lockRead"]
         /\ originHist' = [originHist EXCEPT ![p] =
                             [FreshOriginHist EXCEPT !.target = Request.Url]]
         /\ UNCHANGED <<originImpl, originConfig, CachedOrigin, originResult,
                        originLog, requestObj, lockVars, notOriginLockVars>>
    ELSE OriginCall(p)

\* "if (CachedOrigin.IsSet()) ResolvedOrigin = CachedOrigin.GetValue();",
\* ResolvedOrigin being empty before
CachedValue_Ignored == <<>>
CachedValue == IF CachedOrigin.IsSet THEN CachedOrigin.Value ELSE <<>>

\* "FScopeLock Lock(&CacheLock);", before the read or before the write
CacheLockTake(p) ==
    /\ originPc[p] \in {"lockRead", "lockWrite"}
    /\ Free(CacheLock)
    /\ CacheLock' = p
    /\ originPc' = [originPc EXCEPT ![p] =
                      IF originPc[p] = "lockRead" THEN "read" ELSE "write"]
    /\ UNCHANGED <<originImpl, originConfig, CachedOrigin, originResult,
                   originBudget, originHist, originLog, requestObj, Mutex,
                   locals, notOriginLockVars>>

\* the read of CachedOrigin, the end of the lock's scope, and the code up to
\* "co_await OriginProvider()" or, on a hit, up to the inner call
CacheRead(p) ==
    LET ResolvedOrigin == CachedValue
        hr == [originHist[p] EXCEPT !.cacheReads = 1,
                                    !.cacheAtEntry = CachedOrigin] IN
    /\ originPc[p] = "read"
    /\ CacheLock' = Released(p)
    /\ IF IsEmpty(ResolvedOrigin)
       THEN /\ originPc' = [originPc EXCEPT ![p] = "await"]
            /\ originHist' = [originHist EXCEPT ![p] =
                                [hr EXCEPT !.providerCalls = 1]]
            /\ UNCHANGED <<requestObj, originResult, originLog>>
       ELSE OriginResolved(p, ResolvedOrigin, hr)
    /\ UNCHANGED <<originImpl, originConfig, CachedOrigin, originBudget,
                   Mutex, locals, notOriginLockVars>>

\* "FString ProviderResult = co_await OriginProvider();" resumes
CacheProviderReturn(p, ProviderResult) ==
    /\ originPc[p] = "await"
    /\ locals' = [locals EXCEPT ![p].ProviderResult = ProviderResult]
    /\ originPc' = [originPc EXCEPT ![p] = "lockWrite"]
    /\ originHist' = [originHist EXCEPT ![p].yielded =
                         Append(@, ProviderResult)]
    /\ UNCHANGED <<originImpl, originConfig, CachedOrigin, originResult,
                   originBudget, originLog, requestObj, Mutex, CacheLock,
                   notOriginLockVars>>

\* the write of CachedOrigin, the end of the lock's scope, and the code up
\* to the inner call or the InvalidUrl error
CacheWrite(p) ==
    LET ProviderResult == locals[p].ProviderResult
        stored == Cacheable(ProviderResult)
        h == [originHist[p] EXCEPT
                 !.cacheWrites = IF stored THEN @ + 1 ELSE @] IN
    /\ originPc[p] = "write"
    /\ CachedOrigin' = IF stored THEN SetTo(ProviderResult) ELSE CachedOrigin
    /\ CacheLock' = Released(p)
    /\ OriginResolved(p, ProviderResult, h)
    /\ UNCHANGED <<originImpl, originConfig, originBudget, Mutex, locals,
                   notOriginLockVars>>

(***************************************************************************)
(* TServiceProvider<T>::GetService, for one service type                   *)
(*                                                                         *)
(* The service instances are numbered in the order BuildService is         *)
(* invoked; 0 is nullptr.                                                  *)
(***************************************************************************)
ProviderImpls == {"GetService.Coroutine", "GetService"}

\* "if (!Service.IsValid() || !bSuccess)" (the coroutine), or
\* "if (!Service.IsValid())"
MustBuild ==
    IF providerImpl = "GetService.Coroutine"
    THEN Service = 0 \/ ~bSuccess
    ELSE Service = 0

ProviderStart ==
    /\ providerImpl \in ProviderImpls
    /\ Service = 0
    /\ bSuccess = TRUE
    /\ getPc = [p \in Calls |-> "idle"]
    /\ getResult = [p \in Calls |-> 0]
    /\ getBudget = [p \in Calls |-> MaxGets]
    /\ building = [p \in Calls |-> 0]
    /\ buildCount = 0
    /\ buildFailed = FALSE

ProviderIdle ==
    /\ providerImpl = "GetService"
    /\ Service = 0
    /\ bSuccess = TRUE
    /\ getPc = [p \in Calls |-> "unused"]
    /\ getResult = [p \in Calls |-> 0]
    /\ getBudget = [p \in Calls |-> 0]
    /\ building = [p \in Calls |-> 0]
    /\ buildCount = 0
    /\ buildFailed = FALSE

\* GetService is called and finds the service built: "co_return Service;"
GetServiceCached(p) ==
    /\ getPc[p] \in {"idle", "done"}
    /\ getBudget[p] > 0
    /\ ~MustBuild
    /\ getBudget' = [getBudget EXCEPT ![p] = @ - 1]
    /\ getResult' = [getResult EXCEPT ![p] = Service]
    /\ getPc' = [getPc EXCEPT ![p] = "done"]
    /\ UNCHANGED <<providerImpl, Service, bSuccess, building, buildCount,
                   buildFailed, notProviderVars>>

\* the coroutine GetService is called and must build: BuildService is
\* invoked and awaited
GetServiceAwait(p) ==
    /\ providerImpl = "GetService.Coroutine"
    /\ getPc[p] \in {"idle", "done"}
    /\ getBudget[p] > 0
    /\ MustBuild
    /\ getBudget' = [getBudget EXCEPT ![p] = @ - 1]
    /\ buildCount' = buildCount + 1
    /\ building' = [building EXCEPT ![p] = buildCount + 1]
    /\ getPc' = [getPc EXCEPT ![p] = "build"]
    /\ UNCHANGED <<providerImpl, Service, bSuccess, getResult, buildFailed,
                   notProviderVars>>

\* the awaited BuildService(bSuccess) completes: it made the instance or
\* yields nullptr (valid), and it has set bSuccess (success);
\* "Service = co_await BuildService(bSuccess); co_return Service;"
BuildServiceReturn(p, valid, success) ==
    LET built == IF valid THEN building[p] ELSE 0 IN
    /\ getPc[p] = "build"
    /\ Service' = built
    /\ bSuccess' = success
    /\ getResult' = [getResult EXCEPT ![p] = built]
    /\ getPc' = [getPc EXCEPT ![p] = "done"]
    /\ buildFailed' = (buildFailed \/ ~valid \/ ~success)
    /\ UNCHANGED <<providerImpl, getBudget, building, buildCount,
                   notProviderVars>>

\* the plain GetService is called and must build:
\* "Service = BuildService(); return Service;"
GetServiceBuild(p, valid) ==
    LET built == IF valid THEN buildCount + 1 ELSE 0 IN
    /\ providerImpl = "GetService"
    /\ getPc[p] \in {"idle", "done"}
    /\ getBudget[p] > 0
    /\ MustBuild
    /\ getBudget' = [getBudget EXCEPT ![p] = @ - 1]
    /\ buildCount' = buildCount + 1
    /\ Service' = built
    /\ getResult' = [getResult EXCEPT ![p] = built]
    /\ getPc' = [getPc EXCEPT ![p] = "done"]
    /\ buildFailed' = (buildFailed \/ ~valid)
    /\ UNCHANGED <<providerImpl, bSuccess, building, notProviderVars>>

(***************************************************************************)
(* TRetryLayer<FHttpService> directly around FHttpClient                   *)
(*                                                                         *)
(* "auto Result = co_await InnerService->Call(Request);" runs              *)
(* FHttpClient::Call once per attempt, each in a coroutine frame of its    *)
(* own.                                                                    *)
(***************************************************************************)
\* the requests and the engine's answers the retried transport is run on
RetriedRequests ==
    {r \in ClientRequests :
        /\ r.Url # <<>> /\ r.Method \in {"Get", "Post"}
        /\ r.Headers = <<>> /\ r.ContentType = "" /\ r.Body = <<>>
        /\ r.TimeoutSeconds = 5}

RetriedOutcomes ==
    {r \in HttpOutcomesOfEngine :
        r.AllHeaders = <<>> /\ r.ContentType = "" /\ r.Content = <<>>}

\* the retry service awaits InnerService->Call(Request)
RetryTransportCall ==
    /\ retryPc = "inner"
    /\ ClientCall

\* FHttpClient::Call co_returned: its frame ends, and the retry service's
\* loop body goes on with the result
RetryTransportReturn ==
    /\ clientPc = "done"
    /\ RetryInnerStep(clientResult)
    /\ clientPc' = "idle"
    /\ UNCHANGED <<clientRequest, httpReq, httpCreated, httpDispatched,
                   httpResponse, clientResult, rateVars, decodeVars,
                   requestVars, injectVars, originVars, chainVars, lockVars,
                   providerVars, reuseVars>>

(***************************************************************************)
(* A layer object that goes on being configured after Wrap made a service  *)
(*                                                                         *)
(* TExtractLayer holds its extractors in a TSharedPtr<FExtractorMap> and   *)
(* Wrap gives the service a reference to that map: layer and service read  *)
(* and write the one map object, Extractors.  FInjectHeaderLayer holds     *)
(* TMaps and the service's constructor copies them: layerConfig is the     *)
(* layer's, injectConfig the service's.                                    *)
(***************************************************************************)
IdleInjectConfig ==
    [Headers |-> <<>>, LazyHeaders |-> {}, AsyncLazyHeaders |-> {},
     bOverrideExisting |-> FALSE]

ReuseIdle ==
    /\ layerConfig = IdleInjectConfig
    /\ atWrap = [Extractors |-> {}, injectConfig |-> IdleInjectConfig]
    /\ registrations = 0

\* Wrap has just made the service from the layer
ReuseStart ==
    /\ layerConfig = injectConfig
    /\ atWrap = [Extractors |-> Extractors, injectConfig |-> injectConfig]
    /\ registrations = 0

\* TExtractLayer::Register(TypeKey, Extractor): "Extractors->Add(...)"
ExtractRegister(TypeKey) ==
    /\ decodePc # "unused"
    /\ decodeLayer \in ExtractLayers
    /\ registrations < MaxRegistrations
    /\ registrations' = registrations + 1
    /\ Extractors' = Extractors \cup {TypeKey}
    /\ UNCHANGED <<decodeLayer, decodePc, decodeInnerCalls, decodeInner,
                   decodeResult, extractorCalls, extractorGave, injectVars,
                   layerConfig,
                   atWrap, notReuseVars>>

\* FInjectHeaderLayer::AddHeader(Name, Value): "Headers.Add(Name, Value)"
InjectAddHeader(Name, Value) ==
    /\ injectPc["p"] # "unused"
    /\ registrations < MaxRegistrations
    /\ registrations' = registrations + 1
    /\ layerConfig' =
         [layerConfig EXCEPT !.Headers =
            [k \in DOMAIN layerConfig.Headers \cup {Name} |->
                IF k = Name THEN Value ELSE layerConfig.Headers[k]]]
    /\ UNCHANGED <<decodeVars, injectVars, atWrap, notReuseVars>>

\* FInjectHeaderLayer::LazyHeader(Name, Provider), either overload
InjectLazyHeader(Name, async) ==
    /\ injectPc["p"] # "unused"
    /\ injectImpl = "FInjectHeaderLayer"
    /\ registrations < MaxRegistrations
    /\ registrations' = registrations + 1
    /\ layerConfig' =
         IF async
         THEN [layerConfig EXCEPT !.AsyncLazyHeaders = @ \cup {Name}]
         ELSE [layerConfig EXCEPT !.LazyHeaders = @ \cup {Name}]
    /\ UNCHANGED <<decodeVars, injectVars, atWrap, notReuseVars>>

(***************************************************************************)
(* Specifications                                                          *)
(***************************************************************************)
InitRetry ==
    /\ RetryStart
    /\ RateIdle /\ DecodeIdle /\ RequestIdle /\ InjectIdle /\ OriginIdle
    /\ ChainIdle /\ ClientIdle /\ LockIdle /\ ProviderIdle /\ ReuseIdle

NextRetry ==
    \/ RetryCall
    \/ \E res \in InnerOutcomes(Len(retryInnerLog) + 1) : RetryInnerReturn(res)
    \/ RetryDelayElapsed

SpecRetry == InitRetry /\ [][NextRetry]_vars

InitRate ==
    /\ RateStart
    /\ RetryIdle /\ DecodeIdle /\ RequestIdle /\ InjectIdle /\ OriginIdle
    /\ ChainIdle /\ ClientIdle /\ LockIdle /\ ProviderIdle /\ ReuseIdle

NextRate ==
    \/ RateTick
    \/ \E s \in Services : RateWrap(s)
    \/ \E p \in Calls, s \in Services : RateCallBlocking(p, s)
    \/ \E p \in Calls, s \in Services : RateCallNonBlocking(p, s)
    \/ \E p \in Calls : RateWake(p)
    \/ \E p \in Calls, res \in RateInnerOutcomes : RateInnerReturn(p, res)

SpecRate == InitRate /\ [][NextRate]_vars

\* blocking calls on one service, with a clock that never stops.  The clock
\* goes on, and the engine resumes a coroutine whose Latent::Seconds delay
\* has expired.
LiveBudgets == {[p \in Calls |-> IF p = "p" THEN 2 ELSE 1]}

InitRateLive ==
    /\ RateStartWith(LiveBudgets) /\ rateConfig.bWaitForToken
    /\ RetryIdle /\ DecodeIdle /\ RequestIdle /\ InjectIdle /\ OriginIdle
    /\ ChainIdle /\ ClientIdle /\ LockIdle /\ ProviderIdle /\ ReuseIdle

NextRateLive ==
    \/ RateTick
    \/ LateTick
    \/ \E p \in Calls : RateCallBlocking(p, "A")
    \/ \E p \in Calls : RateWake(p)
    \/ \E p \in Calls, res \in RateInnerOutcomes : RateInnerReturn(p, res)

SpecRateLive ==
    /\ InitRateLive /\ [][NextRateLive]_vars
    /\ WF_vars(RateTick \/ LateTick)
    /\ \A p \in Calls : WF_vars(RateWake(p))

InitDecode ==
    /\ DecodeStart
    /\ RetryIdle /\ RateIdle /\ RequestIdle /\ InjectIdle /\ OriginIdle
    /\ ChainIdle /\ ClientIdle /\ LockIdle /\ ProviderIdle /\ ReuseIdle

NextDecode ==
    \/ DecodeCall
    \/ \E res \in HttpOutcomes : JsonInnerReturn(res)
    \/ \E res \in HttpOutcomes :
         \E content \in ExtractorOutputs(IF res.valid THEN res.value.Body
                                         ELSE <<>>) :
            ExtractInnerReturn(res, content)

SpecDecode == InitDecode /\ [][NextDecode]_vars

InitInject ==
    /\ RequestStart(CallerRequests) /\ InjectStart
    /\ RetryIdle /\ RateIdle /\ DecodeIdle /\ OriginIdle /\ ChainIdle
    /\ ClientIdle /\ LockIdle /\ ProviderIdle /\ ReuseIdle

NextInject ==
    \/ \E p \in Calls : InjectCall(p)
    \/ \E p \in Calls, v \in AsyncValues : InjectProviderReturn(p, v)
    \/ \E p \in Calls, res \in RateInnerOutcomes : InjectInnerReturn(p, res)

SpecInject == InitInject /\ [][NextInject]_vars

InitOrigin ==
    /\ RequestStart(OriginRequests) /\ OriginStart
    /\ RetryIdle /\ RateIdle /\ DecodeIdle /\ InjectIdle /\ ChainIdle
    /\ ClientIdle /\ LockIdle /\ ProviderIdle /\ ReuseIdle

NextOrigin ==
    \/ \E p \in Calls : OriginCall(p)
    \/ \E p \in Calls, v \in ProviderYields : OriginProviderReturn(p, v)
    \/ \E p \in Calls, res \in RateInnerOutcomes : OriginInnerReturn(p, res)

SpecOrigin == InitOrigin /\ [][NextOrigin]_vars

\* one request object given to calls on a header-injecting service and to
\* calls on an origin service, all in flight together
IsolationRequests ==
    [Url : {<<"/", "a">>, HttpPrefix \o <<"h">>},
     Headers : Maps({"X"}, {"orig"})]

InitIsolation ==
    /\ RequestStart(IsolationRequests) /\ InjectStart /\ OriginStart
    /\ injectImpl = "FInjectHeaderLayer"
    /\ DOMAIN injectConfig.Headers \subseteq {"X"}
    /\ injectConfig.LazyHeaders = {"X"}
    /\ injectConfig.AsyncLazyHeaders = {"Y"}
    /\ originImpl = "FHttpOriginLayer"
    /\ originConfig.Origin \in {<<>>, <<"o">>}
    /\ originBudget = [p \in Calls |-> 1]
    /\ RetryIdle /\ RateIdle /\ DecodeIdle /\ ChainIdle /\ ClientIdle
    /\ LockIdle /\ ProviderIdle /\ ReuseIdle

NextIsolation == NextInject \/ NextOrigin

SpecIsolation == InitIsolation /\ [][NextIsolation]_vars

InitChain ==
    /\ ChainStart
    /\ RetryIdle /\ RateIdle /\ DecodeIdle /\ RequestIdle /\ InjectIdle
    /\ OriginIdle /\ ClientIdle /\ LockIdle /\ ProviderIdle /\ ReuseIdle

NextChain ==
    \/ BuilderNew
    \/ \E L \in Layers : BuilderLayer(L)
    \/ BuilderBuild
    \/ ChainCall
    \/ ChainDelegate
    \/ \E res \in RateInnerOutcomes \cup {DefaultResult} : ChainReturn(res)

SpecChain == InitChain /\ [][NextChain]_vars

NextStock ==
    \/ BuilderNew
    \/ \E L \in StockLayers : BuilderLayer(L)
    \/ BuilderBuild
    \/ ChainCall
    \/ StockDelegate
    \/ \E res \in RateInnerOutcomes
                   \cup {DefaultResult, RateLimitTimeout, JsonValue} :
          StockReturn(res)

SpecStock == InitChain /\ [][NextStock]_vars

InitClient ==
    /\ ClientStart
    /\ RetryIdle /\ RateIdle /\ DecodeIdle /\ RequestIdle /\ InjectIdle
    /\ OriginIdle /\ ChainIdle /\ LockIdle /\ ProviderIdle /\ ReuseIdle

NextClient ==
    \/ ClientCall
    \/ \E Response \in HttpOutcomesOfEngine : ClientResponse(Response)

SpecClient == InitClient /\ [][NextClient]_vars

\* a retry service without a Challenge, wrapped around the transport
InitTransportRetry ==
    /\ RetryStart /\ ~retryConfig.HasChallenge
    /\ ClientStart /\ clientRequest \in RetriedRequests
    /\ RateIdle /\ DecodeIdle /\ RequestIdle /\ InjectIdle /\ OriginIdle
    /\ ChainIdle /\ LockIdle /\ ProviderIdle /\ ReuseIdle

NextTransportRetry ==
    \/ RetryCall
    \/ RetryTransportCall
    \/ \E Response \in RetriedOutcomes : ClientResponse(Response)
    \/ RetryTransportReturn
    \/ RetryDelayElapsed

SpecTransportRetry == InitTransportRetry /\ [][NextTransportRetry]_vars

\* threads calling one rate-limited service, or threads calling one origin
\* service that has an OriginProvider
InitLocks ==
    /\ LockIdle
    /\ \/ RateStartWith(ThreadBudgets) /\ RequestIdle /\ OriginIdle
       \/ /\ RateIdle /\ RequestStart(IsolationRequests) /\ OriginStart
          /\ originImpl = "FHttpOriginLayer"
          /\ originConfig.HasProvider
    /\ RetryIdle /\ DecodeIdle /\ InjectIdle /\ ChainIdle /\ ClientIdle
    /\ ProviderIdle /\ ReuseIdle

NextLocks ==
    \/ RateTick
    \/ \E p \in Calls : ThreadCall(p)
    \/ \E p \in Calls : MutexLock(p)
    \/ \E p \in Calls : LockedRefill(p)
    \/ \E p \in Calls : LockedTest(p)
    \/ \E p \in Calls : LockedTake(p)
    \/ \E p \in Calls : LockedMissing(p)
    \/ \E p \in Calls : WaitCheck(p)
    \/ \E p \in Calls : WaitResume(p)
    \/ \E p \in Calls, res \in RateInnerOutcomes : RateInnerReturn(p, res)
    \/ \E p \in Calls : CacheCall(p)
    \/ \E p \in Calls : CacheLockTake(p)
    \/ \E p \in Calls : CacheRead(p)
    \/ \E p \in Calls, v \in ProviderYields : CacheProviderReturn(p, v)
    \/ \E p \in Calls : CacheWrite(p)
    \/ \E p \in Calls, res \in RateInnerOutcomes : OriginInnerReturn(p, res)

SpecLocks == InitLocks /\ [][NextLocks]_vars

InitProvider ==
    /\ ProviderStart
    /\ RetryIdle /\ RateIdle /\ DecodeIdle /\ RequestIdle /\ InjectIdle
    /\ OriginIdle /\ ChainIdle /\ ClientIdle /\ LockIdle /\ ReuseIdle

NextProvider ==
    \/ \E p \in Calls : GetServiceCached(p)
    \/ \E p \in Calls : GetServiceAwait(p)
    \/ \E p \in Calls, valid, success \in BOOLEAN :
          BuildServiceReturn(p, valid, success)
    \/ \E p \in Calls, valid \in BOOLEAN : GetServiceBuild(p, valid)

SpecProvider == InitProvider /\ [][NextProvider]_vars

\* a service made by a TExtractLayer, or one made by a FInjectHeaderLayer,
\* and the layer object still in its owner's hands
InitReuse ==
    /\ \/ /\ DecodeStart /\ decodeLayer \in ExtractLayers
          /\ RequestIdle /\ InjectIdle
       \/ /\ DecodeIdle
          /\ RequestStart(IsolationRequests) /\ InjectStart
          /\ DOMAIN injectConfig.Headers \subseteq {"X"}
          /\ injectConfig.LazyHeaders = {}
          /\ injectConfig.AsyncLazyHeaders \subseteq {"X"}
    /\ ReuseStart
    /\ RetryIdle /\ RateIdle /\ OriginIdle /\ ChainIdle /\ ClientIdle
    /\ LockIdle /\ ProviderIdle

NextReuse ==
    \/ \E TypeKey \in ContentTypes : ExtractRegister(TypeKey)
    \/ DecodeCall
    \/ \E res \in HttpOutcomes :
         \E content \in ExtractorOutputs(IF res.valid THEN res.value.Body
                                         ELSE <<>>) :
            ExtractInnerReturn(res, content)
    \/ \E Name \in HeaderKeys : InjectAddHeader(Name, "static")
    \/ \E Name \in HeaderKeys, async \in BOOLEAN :
          InjectLazyHeader(Name, async)
    \/ \E p \in {"p"} : InjectCall(p)
    \/ \E p \in {"p"}, v \in AsyncValues : InjectProviderReturn(p, v)
    \/ \E p \in {"p"}, res \in RateInnerOutcomes : InjectInnerReturn(p, res)

SpecReuse == InitReuse /\ [][NextReuse]_vars

(***************************************************************************)
(* Claims about TRetryLayer (checked under SpecRetry)                      *)
(***************************************************************************)
RetryAllFailed == \A i \in 1..Len(retryInnerLog) : ~retryInnerLog[i].valid
RetryAllValid == \A i \in 1..Len(retryInnerLog) : retryInnerLog[i].valid

\* C1: when every inner call fails and MaxAttempts = N >= 1, a finished Call
\* has made exactly N inner calls (never more while running) and returns the
\* error of the N-th inner call.
C1_AlwaysFailingInner ==
    (retryConfig.MaxAttempts >= 1 /\ RetryAllFailed) =>
        /\ Len(retryInnerLog) <= retryConfig.MaxAttempts
        /\ retryPc = "done" =>
             /\ Len(retryInnerLog) = retryConfig.MaxAttempts
             /\ ~retryResult.valid
             /\ retryResult = retryInnerLog[retryConfig.MaxAttempts]

C1_Witness ==
    /\ retryPc = "done"
    /\ retryConfig.MaxAttempts = MaxAttemptsBound
    /\ Len(retryInnerLog) = MaxAttemptsBound
    /\ RetryAllFailed

\* C2: with a Challenge that rejects every response and an inner service
\* that always succeeds, a finished Call has made exactly N = MaxAttempts
\* inner calls and returns the N-th response as a value.
RejectingChallenge ==
    /\ retryImpl = "FRetryService"
    /\ retryConfig.HasChallenge
    /\ retryConfig.Accept = {}

C2_RejectingChallenge ==
    (RejectingChallenge /\ retryConfig.MaxAttempts >= 1 /\ RetryAllValid) =>
        /\ Len(retryInnerLog) <= retryConfig.MaxAttempts
        /\ retryPc = "done" =>
             /\ Len(retryInnerLog) = retryConfig.MaxAttempts
             /\ retryResult.valid
             /\ retryResult = retryInnerLog[retryConfig.MaxAttempts]

C2_Witness ==
    /\ retryPc = "done"
    /\ RejectingChallenge
    /\ retryConfig.MaxAttempts = MaxAttemptsBound
    /\ Len(retryInnerLog) = MaxAttemptsBound
    /\ RetryAllValid

\* a result the claim calls accepted: a value, and no Challenge is
\* configured or the Challenge returns true for it
AcceptedResult(res) ==
    /\ res.valid
    /\ \/ retryImpl = "FTRetryServiceWrapper"
       \/ ~retryConfig.HasChallenge
       \/ res.value.tag \in retryConfig.Accept

\* C3: the first accepted attempt k ends the Call: it is the last inner
\* call ever made (k inner calls), its value is the result, and the only
\* delays are the ones between the k attempts.
C3_AcceptedAttemptEndsCall ==
    \A k \in 1..Len(retryInnerLog) :
        AcceptedResult(retryInnerLog[k]) =>
            /\ k = Len(retryInnerLog)
            /\ k <= retryConfig.MaxAttempts
            /\ retryPc = "done"
            /\ retryResult = retryInnerLog[k]
            /\ retryResult.valid
            /\ retryDelays = IF retryConfig.DelayPositive THEN k - 1 ELSE 0

C3_Witness ==
    /\ retryPc = "done"
    /\ Len(retryInnerLog) = 2
    /\ retryConfig.MaxAttempts = MaxAttemptsBound
    /\ retryInnerLog[1].valid
    /\ ~AcceptedResult(retryInnerLog[1])
    /\ AcceptedResult(retryInnerLog[2])
    /\ retryDelays = 1

(***************************************************************************)
(* Claims about TRateLimitLayer (checked under SpecRate)                   *)
(***************************************************************************)
BlockingWithTimeout ==
    rateConfig.bWaitForToken /\ rateConfig.MaxWaitSeconds > 0

C5_NonBlockingRejection ==
    \A p \in Calls :
        ~rateConfig.bWaitForToken =>
            /\ callPc[p] # "sleep"
            /\ callHist[p].sleeps = 0
            /\ callPc[p] \in {"inner", "done"} => callHist[p].tries = 1
            /\ callPc[p] = "inner" => callHist[p].acquired
            /\ (callPc[p] = "done" /\ ~callHist[p].acquired) =>
                 /\ ~callResult[p].valid
                 /\ callResult[p] = DefaultResult
                 /\ callHist[p].inner = 0
                 /\ callHist[p].spent = 0

C5_Witness ==
    \E p \in Calls :
        /\ ~rateConfig.bWaitForToken
        /\ callPc[p] = "done"
        /\ ~callHist[p].acquired
        /\ callHist[p].tries = 1
        /\ CurrentTokens[BucketOf(callSvc[p])] > 0

\* the non-blocking acquisitions recorded for service s that happened
\* before any time passed since s was wrapped
AtCreation(s) == {i \in 1..Len(svcHist[s].log) : svcHist[s].log[i].t = 0}

\* C6: of the non-blocking acquisitions on a freshly wrapped bucket with no
\* time passed, exactly the first MaxTokens succeed; if the bucket was so
\* drained and the next acquisitions happen exactly 1/TokensPerSecond
\* (TokenUnit ticks) after the wrap, exactly the first of them succeeds.
C6_TokenBucketArithmetic ==
    \A s \in Services :
        LET L == svcHist[s].log IN
        \A i \in 1..Len(L) :
            /\ L[i].t = 0 => (L[i].ok <=> i <= rateConfig.MaxTokens)
            /\ ( /\ L[i].t = TokenUnit
                 /\ Cardinality(AtCreation(s)) >= rateConfig.MaxTokens
                 /\ \A j \in 1..(i - 1) : L[j].t \in {0, TokenUnit} )
               => (L[i].ok <=> i = Cardinality(AtCreation(s)) + 1)

C6_Witness ==
    \E s \in Services :
        LET L == svcHist[s].log
            M == rateConfig.MaxTokens
        IN
        /\ M = MaxBucket
        /\ Len(L) = M + 3
        /\ L[M].t = 0 /\ L[M].ok
        /\ L[M + 1].t = 0 /\ ~L[M + 1].ok
        /\ L[M + 2].t = TokenUnit /\ L[M + 2].ok
        /\ L[M + 3].t = TokenUnit /\ ~L[M + 3].ok

\* C7: a wrapped service on which no call was made yet still has the bucket
\* its constructor made (full, LastRefillTime at its creation), whatever
\* calls were made on the other service; and the first call made on a
\* service is never delayed or rejected.
C7_IndependentBuckets ==
    /\ \A s \in Services :
         (wrapped[s] /\ ~svcHist[s].touched) =>
            /\ CurrentTokens[BucketOf(s)] = Capacity
            /\ LastRefillTime[BucketOf(s)] = svcHist[s].created
    /\ \A p \in Calls :
         callHist[p].fresh =>
            /\ callPc[p] # "sleep"
            /\ callPc[p] \in {"inner", "done"} => callHist[p].acquired

C7_Witness ==
    /\ wrapped["A"] /\ wrapped["B"]
    /\ ~svcHist["B"].touched
    /\ CurrentTokens["B"] = Capacity
    /\ CurrentTokens["A"] < TokenUnit
    /\ \E p \in Calls :
         /\ callSvc[p] = "A"
         /\ callPc[p] = "done"
         /\ ~callHist[p].acquired

(***************************************************************************)
(* Claims about FJsonLayer and TExtractLayer                               *)
(***************************************************************************)
\* the Call has co_returned, and the inner result it got
DecodeDone == decodePc = "done" /\ Len(decodeInner) = 1
InnerResult == decodeInner[1]

\* the content of the extract result is absent where the claim says so:
\* no extractor for the type-key, or an empty body
ContentAbsentWhereDue ==
    (InnerResult.value.ContentType \notin Extractors
       \/ Len(InnerResult.value.Body) = 0)
    => decodeResult.value.content = NullPtr

\* C8, as stated, over every revision of TExtractLayer the sources hold:
\* whenever the inner Call returned a value, the Extract layer's Call
\* returns a value carrying the base response, with the content absent if
\* no extractor is registered for the type-key or the body is empty.
\* The earlier revision (RetryLayer.h 314-342) returns the default error
\* when no extractor is registered, so this is violated.
C8_InnerSuccessStaysSuccess ==
    (decodeLayer \in ExtractLayers /\ DecodeDone /\ InnerResult.valid)
    => /\ decodeResult.valid
       /\ decodeResult.value.base = InnerResult.value
       /\ ContentAbsentWhereDue

\* C8, the case the claim singles out and the revision of part_004 handles:
\* an inner success with a non-empty body and an unregistered type-key ended
\* as a value with the base response
C8_Witness ==
    /\ decodeLayer = "TExtractLayer"
    /\ DecodeDone
    /\ InnerResult.valid
    /\ Len(InnerResult.value.Body) > 0
    /\ InnerResult.value.ContentType \notin Extractors
    /\ decodeResult.valid
    /\ decodeResult.value.base = InnerResult.value
    /\ decodeResult.value.content = NullPtr

\* C9: when the inner Call returned an error, the JSON layer's and the
\* Extract layer's Call returns exactly that error, the inner service was
\* called once only, and no extractor was invoked.
C9_InnerErrorPropagated ==
    (DecodeDone /\ ~InnerResult.valid)
    => /\ decodeResult = InnerResult
       /\ ~decodeResult.valid
       /\ decodeInnerCalls = 1
       /\ extractorCalls = <<>>

\* C9: an Extract layer with an extractor for every type-key got an inner
\* error that is not the default one, and returned it
C9_Witness ==
    /\ decodeLayer = "TExtractLayer"
    /\ Extractors = ContentTypes
    /\ DecodeDone
    /\ ~InnerResult.valid
    /\ InnerResult.error.code = "ConnectionFailed"
    /\ decodeResult = InnerResult
    /\ decodeInnerCalls = 1

\* the body of the inner response is not a JSON document
InvalidJson(bytes) == Len(bytes) > 0 /\ ArrayDepth(TextOf(bytes)) = 0

\* C10: on inner success the JSON layer's Call returns a value whose
\* Body.RawBytes is the inner body and whose Url, StatusCode, Headers,
\* ContentType and bSucceeded are the inner response's, whether the body is
\* empty, valid JSON or invalid JSON; a parse failure never gives an error.
C10_JsonKeepsResponse ==
    (decodeLayer \in JsonLayers /\ DecodeDone /\ InnerResult.valid)
    => /\ decodeResult.valid
       /\ decodeResult.value.Body.RawBytes = InnerResult.value.Body
       /\ decodeResult.value.Url = InnerResult.value.Url
       /\ decodeResult.value.StatusCode = InnerResult.value.StatusCode
       /\ decodeResult.value.Headers = InnerResult.value.Headers
       /\ decodeResult.value.ContentType = InnerResult.value.ContentType
       /\ decodeResult.value.bSucceeded = InnerResult.value.bSucceeded

\* C10: the JsonValue revision got a 404 response with a non-empty body that
\* does not parse, and returned a value with a null Json and the raw bytes
C10_Witness ==
    /\ decodeLayer = "FJsonLayer.JsonValue"
    /\ DecodeDone
    /\ InnerResult.valid
    /\ InvalidJson(InnerResult.value.Body)
    /\ InnerResult.value.StatusCode = 404
    /\ ~InnerResult.value.bSucceeded
    /\ decodeResult.valid
    /\ decodeResult.value.Body.Json = NullPtr
    /\ decodeResult.value.Body.RawBytes = InnerResult.value.Body

(***************************************************************************)
(* Claims about FInjectHeaderLayer (checked under SpecInject)              *)
(***************************************************************************)
\* the call p has reached its inner call: the inner service got injectSeen
InjectForwarded(p) == injectPc[p] \in {"inner", "done"}

\* the headers of the request the caller passed
OriginalHeaders == requestObj[CallerRequest].Headers

\* the keys some source is configured for
ConfiguredKeys ==
    DOMAIN injectConfig.Headers \cup injectConfig.LazyHeaders
        \cup injectConfig.AsyncLazyHeaders

\* the values the source src can give for a key
SourceValues(src) ==
    CASE src = "static" -> {"static"}
      [] src = "lazy" -> {"lazy"}
      [] src = "async" -> AsyncValues

SourcesOf(k) ==
    {src \in Sources :
        \/ src = "static" /\ k \in DOMAIN injectConfig.Headers
        \/ src = "lazy" /\ k \in injectConfig.LazyHeaders
        \/ src = "async" /\ k \in injectConfig.AsyncLazyHeaders}

\* Call merges the static headers, then the lazy ones, then the async ones
SourceRank(src) ==
    CASE src = "static" -> 1 [] src = "lazy" -> 2 [] src = "async" -> 3

FirstSource(k) ==
    CHOOSE src \in SourcesOf(k) :
        \A other \in SourcesOf(k) : SourceRank(src) <= SourceRank(other)
LastSource(k) ==
    CHOOSE src \in SourcesOf(k) :
        \A other \in SourcesOf(k) : SourceRank(src) >= SourceRank(other)

\* C11: for every configured key X, with OverrideExisting=false a request
\* that already carries X reaches the inner service with its original
\* value; with OverrideExisting=true the inner service sees the configured
\* or provider value for X (of the source merged last, if several sources
\* name X); a configured key absent from the request is always added (with
\* OverrideExisting=false, from the source merged first).
C11_OverrideRule ==
    \A p \in Calls : InjectForwarded(p) =>
      \A k \in ConfiguredKeys :
        LET seen == injectSeen[p].Headers IN
        /\ k \in DOMAIN seen
        /\ (~injectConfig.bOverrideExisting /\ k \in DOMAIN OriginalHeaders)
             => seen[k] = OriginalHeaders[k]
        /\ injectConfig.bOverrideExisting
             => seen[k] \in SourceValues(LastSource(k))
        /\ (~injectConfig.bOverrideExisting /\ k \notin DOMAIN OriginalHeaders)
             => seen[k] \in SourceValues(FirstSource(k))

\* C11: without override, a call on a request carrying X but not Y, with an
\* async provider for X and a static value and a lazy provider for Y,
\* reached the inner service with the original X and the static Y
C11_Witness ==
    /\ ~injectConfig.bOverrideExisting
    /\ DOMAIN OriginalHeaders = {"X"}
    /\ "X" \in injectConfig.AsyncLazyHeaders
    /\ "Y" \in DOMAIN injectConfig.Headers
    /\ "Y" \in injectConfig.LazyHeaders
    /\ injectPc["p"] = "done"
    /\ injectSeen["p"].Headers = [k \in {"X", "Y"} |->
                                    IF k = "X" THEN "orig" ELSE "static"]

\* the provider of source src for key k has to be invoked by a call: with
\* override always, else only if neither the request nor an earlier source
\* has the key
ProviderDue(src, k) ==
    \/ injectConfig.bOverrideExisting
    \/ /\ k \notin DOMAIN OriginalHeaders
       /\ FirstSource(k) = src

\* C12: providers are evaluated only when their value is written: with
\* OverrideExisting=false a lazy or async-lazy provider whose key is already
\* in the request, or was added by an earlier source in the same call, is
\* never invoked during the call; with OverrideExisting=true every provider
\* is invoked exactly once per call.
C12_ProvidersOnlyWhenWritten ==
    \A p \in Calls :
      \A src \in {"lazy", "async"} :
        \A k \in IF src = "lazy" THEN injectConfig.LazyHeaders
                 ELSE injectConfig.AsyncLazyHeaders :
          /\ ~ProviderDue(src, k) => providerCalls[p][src, k] = 0
          /\ providerCalls[p][src, k] <= 1
          /\ (InjectForwarded(p) /\ ProviderDue(src, k))
               => providerCalls[p][src, k] = 1

\* C12: without override, with a lazy and an async provider for X and an
\* async provider for Y, a call on a request carrying Y invoked the lazy
\* provider of X once and no async provider, and reached the inner service
C12_Witness ==
    /\ ~injectConfig.bOverrideExisting
    /\ injectConfig.LazyHeaders = {"X"}
    /\ injectConfig.AsyncLazyHeaders = {"X", "Y"}
    /\ DOMAIN injectConfig.Headers = {}
    /\ DOMAIN OriginalHeaders = {"Y"}
    /\ injectPc["q"] = "done"
    /\ providerCalls["q"]["lazy", "X"] = 1
    /\ providerCalls["q"]["async", "X"] = 0
    /\ providerCalls["q"]["async", "Y"] = 0

(***************************************************************************)
(* Claims about FHttpOriginLayer (checked under SpecOrigin)                *)
(***************************************************************************)
\* the text starts with "http://" or "https://", whatever the case of its
\* letters
SchemePrefixed(url) ==
    \E prefix \in {HttpPrefix, HttpsPrefix} :
        /\ Len(url) >= Len(prefix)
        /\ [i \in 1..Len(prefix) |-> ToLower(url[i])] = prefix

\* the call p was entered (its history is that of a Call made)
OriginEntered(p) == originPc[p] \in {"await", "inner", "done"}

\* C13: when the request URL starts with http:// or https:// (whatever the
\* case), the inner service is called exactly once with a request identical
\* to the caller's, and neither the origin provider nor the cache is
\* consulted or modified.
C13_AbsoluteTargetForwarded ==
    \A p \in Calls :
      (OriginEntered(p) /\ SchemePrefixed(originHist[p].target)) =>
        /\ originPc[p] # "await"
        /\ originHist[p].innerCalls = 1
        /\ originHist[p].seen = requestObj[CallerRequest]
        /\ originHist[p].providerCalls = 0
        /\ originHist[p].cacheReads = 0
        /\ originHist[p].cacheWrites = 0
        /\ CachedOrigin = Unset
        /\ originPc[p] = "done" => originResult[p] \in RateInnerOutcomes

\* C13: a layer with a provider forwarded an upper-case HTTPS:// target
C13_Witness ==
    /\ originConfig.HasProvider
    /\ originPc["p"] = "done"
    /\ originHist["p"].target = <<"H", "T", "T", "P", "S", ":", "/", "/", "h">>
    /\ originHist["p"].innerCalls = 1
    /\ originHist["p"].seen.Url = originHist["p"].target
    /\ originResult["p"].valid

\* the origin the call p resolves is empty: the static Origin, or what the
\* provider yielded (the cache having been unset)
ResolvesEmpty(p) ==
    IF originConfig.HasProvider
    THEN originHist[p].yielded = << <<>> >>
    ELSE originConfig.Origin = <<>>

\* C14: for a relative request target, if the resolved origin (static
\* value, cached value or provider result) is empty, the Call returns an
\* InvalidUrl error and the inner service is not called.
C14_EmptyOriginIsInvalidUrl ==
    /\ CachedOrigin.IsSet => CachedOrigin.Value # <<>>
    /\ \A p \in Calls :
         (OriginEntered(p) /\ ~SchemePrefixed(originHist[p].target)
            /\ ResolvesEmpty(p)) =>
           /\ originPc[p] = "done"
           /\ originResult[p] = InvalidUrl
           /\ originHist[p].innerCalls = 0
           /\ originHist[p].seen = NoRequest

\* C14: the provider of a layer yielded an empty origin for the target
\* "/a/b" and the call ended with InvalidUrl
C14_Witness ==
    /\ originConfig.HasProvider
    /\ originPc["q"] = "done"
    /\ originHist["q"].target = <<"/", "a", "/", "b">>
    /\ originHist["q"].yielded = << <<>> >>
    /\ originResult["q"] = InvalidUrl
    /\ originHist["q"].innerCalls = 0

\* n slashes
Slashes(n) == [i \in 1..n |-> "/"]

\* the origin without its trailing slashes: the prefix that does not end
\* with a slash and is followed by slashes only
WithoutTrailingSlashes(o) ==
    CHOOSE r \in {SubSeq(o, 1, n) : n \in 0..Len(o)} :
        /\ r = <<>> \/ r[Len(r)] # "/"
        /\ o = r \o Slashes(Len(o) - Len(r))

\* the target without its leading slashes: the suffix that does not start
\* with a slash and is preceded by slashes only
WithoutLeadingSlashes(t) ==
    CHOOSE r \in {SubSeq(t, n + 1, Len(t)) : n \in 0..Len(t)} :
        /\ r = <<>> \/ r[1] # "/"
        /\ t = Slashes(Len(t) - Len(r)) \o r

JoinedUrl(o, t) ==
    IF WithoutLeadingSlashes(t) = <<>>
    THEN WithoutTrailingSlashes(o)
    ELSE WithoutTrailingSlashes(o) \o <<"/">> \o WithoutLeadingSlashes(t)

\* the call p combined its resolved origin with a relative target
Combined(p) ==
    /\ originPc[p] \in {"inner", "done"}
    /\ originHist[p].innerCalls = 1
    /\ ~SchemePrefixed(originHist[p].target)

\* C15: for every origin o and relative target t, CombineUrl(o, t) is o
\* without its trailing slashes, then "/" and t without its leading slashes,
\* or just the trimmed origin when the trimmed target is empty; in
\* particular "https://example.com" or "https://example.com/" combined with
\* "/a/b" or "a/b" is "https://example.com/a/b", and "https://example.com"
\* combined with "" is "https://example.com".
C15_CombineUrl ==
    \A p \in Calls : Combined(p) =>
      LET o == originHist[p].resolved
          t == originHist[p].target
          url == originHist[p].seen.Url IN
      /\ url = JoinedUrl(o, t)
      /\ (o \in {ExampleOrigin, ExampleOrigin \o <<"/">>}
            /\ t \in {<<"/", "a", "/", "b">>, <<"a", "/", "b">>})
           => url = ExampleOrigin \o <<"/", "a", "/", "b">>
      /\ (o = ExampleOrigin /\ t = <<>>) => url = ExampleOrigin

\* C15: the revision with a static origin only combined
\* "https://example.com/" with "/a/b" into "https://example.com/a/b"
C15_Witness ==
    /\ originImpl = "FHttpOriginLayer.StaticOnly"
    /\ originConfig.Origin = ExampleOrigin \o <<"/">>
    /\ Combined("p")
    /\ originHist["p"].target = <<"/", "a", "/", "b">>
    /\ originHist["p"].seen.Url = ExampleOrigin \o <<"/", "a", "/", "b">>

\* only the caller p makes Calls, one after the other
SequentialCalls == originBudget["q"] = 0 /\ originPc["q"] = "idle"

\* C16: with an async provider the cache is unset or holds a non-empty
\* string in every reachable state; with sequential calls, once a call has
\* resolved a non-empty origin every later relative-target call uses the
\* cached value without invoking the provider, and a call whose provider
\* yielded an empty string leaves the cache unset, so that the next
\* relative-target call invokes the provider again.
C16_OriginCache ==
    /\ CachedOrigin.IsSet => CachedOrigin.Value # <<>>
    /\ (originConfig.HasProvider /\ SequentialCalls) =>
         \A i \in 1..Len(originLog) :
           LET call == originLog[i].h IN
           /\ call.resolved # <<>> =>
                \A j \in (i + 1)..Len(originLog) :
                  /\ originLog[j].h.providerCalls = 0
                  /\ originLog[j].h.cacheAtEntry = SetTo(call.resolved)
                  /\ originLog[j].h.resolved = call.resolved
           /\ call.yielded = << <<>> >> =>
                /\ call.cacheWrites = 0
                /\ call.cacheAtEntry = Unset
                /\ i < Len(originLog) =>
                     /\ originLog[i + 1].h.cacheAtEntry = Unset
                     /\ originLog[i + 1].h.providerCalls = 1
                /\ (i = Len(originLog) /\ originPc["p"] = "done")
                     => CachedOrigin = Unset

\* C16: three calls in a row: the provider yielded "" to the first, which
\* failed; it was invoked again by the second and yielded
\* "https://example.com"; the third used the cached value without it
C16_Witness ==
    /\ originConfig.HasProvider
    /\ SequentialCalls
    /\ Len(originLog) = 3
    /\ originLog[1].h.yielded = << <<>> >>
    /\ originLog[1].result = InvalidUrl
    /\ originLog[2].h.yielded = <<ExampleOrigin>>
    /\ originLog[3].h.providerCalls = 0
    /\ originLog[3].h.resolved = ExampleOrigin
    /\ CachedOrigin = SetTo(ExampleOrigin)

(***************************************************************************)
(* Claims about TServiceBuilder (checked under SpecChain)                  *)
(***************************************************************************)
RECURSIVE Reverse(_)
Reverse(q) == IF q = <<>> THEN <<>> ELSE Append(Reverse(Tail(q)), Head(q))

\* the layers of the chain behind the service object id, outermost first
RECURSIVE LayersFrom(_)
LayersFrom(id) ==
    IF id = 0 THEN <<>> ELSE <<svcLayer[id]>> \o LayersFrom(svcInner[id])

\* the order the claim gives: the layer added last first, the base last
ClaimedOrder == Reverse(applied) \o <<BaseService>>

\* the services a trace leaves entered, outermost first
RECURSIVE OpenAfter(_)
OpenAfter(trace) ==
    IF trace = <<>> THEN <<>>
    ELSE LET before == OpenAfter(SubSeq(trace, 1, Len(trace) - 1))
             last == trace[Len(trace)] IN
         IF last.event = "enter" THEN Append(before, last.svc)
         ELSE SubSeq(before, 1, Len(before) - 1)

\* the layers whose services the trace enters and leaves, as a text
EventsOf(trace) ==
    [i \in 1..Len(trace) |-> <<trace[i].event, svcLayer[trace[i].svc]>>]

\* C17: for a chain built as New(S).Layer(L1).Layer(L2).Build() every Call
\* enters the service of the layer added last first, each service entered
\* delegates to the service of the layer added before it, down to S, and
\* the result flows back through the same services in reverse order.
C17_LastAddedLayerOutermost ==
    /\ builderPc = "built" => LayersFrom(builtService) = ClaimedOrder
    /\ \A k \in 1..Len(chainTrace) :
         LET open == OpenAfter(SubSeq(chainTrace, 1, k - 1))
             e == chainTrace[k] IN
         /\ e.event = "enter" =>
              /\ Len(open) < Len(ClaimedOrder)
              /\ svcLayer[e.svc] = ClaimedOrder[Len(open) + 1]
              /\ open # <<>> => e.svc = svcInner[open[Len(open)]]
         /\ e.event = "exit" => open # <<>> /\ e.svc = open[Len(open)]
    /\ OpenAfter(chainTrace) = [i \in 1..Len(chainStack) |-> chainStack[i].svc]

\* C17: New(S).Layer(L1).Layer(L2).Build(); a Call went in through L2, L1
\* and S and its value came back through S, L1 and L2
C17_Witness ==
    /\ applied = <<"L1", "L2">>
    /\ chainStack = <<>>
    /\ EventsOf(chainTrace) =
         << <<"enter", "L2">>, <<"enter", "L1">>, <<"enter", "S">>,
            <<"exit", "S">>, <<"exit", "L1">>, <<"exit", "L2">> >>
    /\ chainResult.valid

(***************************************************************************)
(* Claims about the request objects (checked under SpecIsolation)          *)
(***************************************************************************)
\* C18: the header-injection and origin layers rewrite only a per-call
\* copy: no step of any Call, with calls in flight together on one request
\* object, changes the Url or the Headers of the caller's request.
C18_CallerRequestUntouched ==
    [][/\ requestObj'[CallerRequest].Url = requestObj[CallerRequest].Url
       /\ requestObj'[CallerRequest].Headers =
            requestObj[CallerRequest].Headers]_vars

\* C18: all four calls on a request "/a" without headers are over; the
\* inner services got a request with injected headers and a request with a
\* prefixed Url, and the caller's request is as it was
C18_Witness ==
    /\ \A p \in Calls : injectPc[p] = "done" /\ originPc[p] = "done"
    /\ requestObj[CallerRequest] = [Url |-> <<"/", "a">>, Headers |-> <<>>]
    /\ injectSeen["p"].Headers \in [{"X", "Y"} -> {"lazy"} \cup AsyncValues]
    /\ DOMAIN requestObj[ModifiedRequest("q")].Headers = {"X", "Y"}
    /\ originHist["p"].seen.Url = <<"o", "/", "a">>
    /\ requestObj[OriginModifiedRequest("q")].Url = <<"o", "/", "a">>

(***************************************************************************)
(* Claims about TResult (checked under SpecRetry)                          *)
(***************************************************************************)
HasValue(res) == res.value # NoValue
HasError(res) == res.error # NoError

\* the result holds a value or an error, not both and not neither, and
\* IsValid() tells which
ExactlyOne(res) ==
    /\ HasValue(res) # HasError(res)
    /\ res.valid = HasValue(res)

\* Call fell out of its loop without an attempt: "co_return TResult();"
RetryFellThrough == retryPc = "done" /\ retryInnerLog = <<>>

\* C19: a TResult always holds exactly one of a value or an error, and a
\* default-constructed TResult, the fallback a layer returns when it
\* produces no explicit result, is in the error state, never a success.
C19_ResultValueOrError ==
    /\ ExactlyOne(retryResult)
    /\ \A i \in 1..Len(retryInnerLog) : ExactlyOne(retryInnerLog[i])
    /\ ExactlyOne(DefaultResult) /\ ~DefaultResult.valid
    /\ RetryFellThrough =>
         /\ ~retryResult.valid
         /\ HasError(retryResult)
         /\ retryResult.error = DefaultError

\* C19: a retry service with MaxAttempts = 0 returned from Call without an
\* attempt, and the result is the default error
C19_Witness ==
    /\ retryConfig.MaxAttempts = 0
    /\ RetryFellThrough
    /\ ~retryResult.valid
    /\ retryResult.error = DefaultError

(***************************************************************************)
(* C20: a Call of the base transport whose request URL is empty returns    *)
(* the InvalidUrl error, and neither creates an HTTP request nor gives one *)
(* to the engine's HTTP client: it never waits for a response.             *)
(***************************************************************************)
ClientEntered == clientPc \in {"await", "done"}

C20_EmptyUrlIsInvalidUrl ==
    (ClientEntered /\ Len(clientRequest.Url) = 0) =>
        /\ clientPc = "done"
        /\ clientResult = InvalidUrl
        /\ httpCreated = 0
        /\ httpDispatched = 0
        /\ httpReq = NoHttpReq
        /\ httpResponse = NoHttpResponse

\* C20 witness: a Call with an empty URL has returned InvalidUrl with no
\* request created
C20_Witness ==
    /\ clientPc = "done"
    /\ Len(clientRequest.Url) = 0
    /\ clientResult = InvalidUrl
    /\ httpCreated = 0

(***************************************************************************)
(* C21: a Call of the base transport that dispatched its request returns   *)
(* the ConnectionFailed error exactly when the engine reports no           *)
(* connection or gives no response object; otherwise it returns a value,   *)
(* whatever the status code, that carries the status code and whose        *)
(* bSucceeded is true exactly for 200 <= StatusCode < 300.                 *)
(***************************************************************************)
ClientCompleted == clientPc = "done" /\ httpDispatched = 1

NoConnectionOrResponse == ~httpResponse.bConnected \/ ~httpResponse.IsValid

AttemptsMade == callHist["p"].tries + callHist["q"].tries

Acquisitions == callHist["p"].inner + callHist["q"].inner

C22_NoTokenConsumedTwice ==
    wrapped["A"] =>
        /\ CurrentTokens["A"] >= 0
        /\ now = 0 =>
             /\ CurrentTokens["A"] + TokenUnit * Acquisitions = Capacity
             /\ AttemptsMade > rateConfig.MaxTokens
                  => Acquisitions = rateConfig.MaxTokens

\* C22 witness: two threads tried at the same instant to take the only
\* token, and one of them got it
C22_Witness ==
    /\ wrapped["A"]
    /\ now = 0
    /\ rateConfig.MaxTokens = 1
    /\ callHist["p"].tries = 1
    /\ callHist["q"].tries = 1
    /\ Acquisitions = 1
    /\ CurrentTokens["A"] = 0

(***************************************************************************)
(* C23: no call is suspended while it holds a lock.  The bucket's Mutex is *)
(* held only by a call that is executing the locked block of               *)
(* TryAcquireToken or WaitForToken, never by one awaiting the delay or the *)
(* inner service; the origin's CacheLock is held only by a call that is    *)
(* reading or writing CachedOrigin, never by one awaiting the provider or  *)
(* the inner service.                                                      *)
(***************************************************************************)
RateSuspended(p) == callPc[p] \in {"sleep", "inner"}

OriginSuspended(p) == originPc[p] \in {"await", "inner"}

C23_NoLockHeldAcrossSuspension ==
    \A p \in Calls :
        /\ RateSuspended(p) => Mutex # p
        /\ OriginSuspended(p) => CacheLock # p
        /\ Mutex = p <=> callPc[p] \in {"refill", "test", "take", "missing"}
        /\ CacheLock = p <=> originPc[p] \in {"read", "write"}

\* C23 witness: while one call awaits its delay another call holds the
\* bucket's mutex
C23_Witness ==
    /\ callPc["p"] = "sleep"
    /\ now < wakeAt["p"]
    /\ Mutex = "q"
    /\ callPc["q"] = "test"

IsExit(i) == chainTrace[i].event = "exit"

ComposedReturned == chainTrace # <<>> /\ chainStack = <<>>

LastBaseExit(i) ==
    /\ IsExit(i)
    /\ chainTrace[i].svc = 1
    /\ \A j \in (i + 1)..Len(chainTrace) :
          IsExit(j) => chainTrace[j].svc # 1

C26_BuildServiceAtMostOnce ==
    ~buildFailed =>
        /\ buildCount <= 1
        /\ \A p, q \in Calls :
              (getPc[p] = "done" /\ getPc[q] = "done")
              => getResult[p] = getResult[q]

\* C26 witness: on the plain GetService two callers have got the one
\* instance, built once
C26_Witness ==
    /\ providerImpl = "GetService"
    /\ ~buildFailed
    /\ buildCount = 1
    /\ getBudget = [p \in Calls |-> 0]
    /\ \A p \in Calls : getPc[p] = "done" /\ getResult[p] = 1

(***************************************************************************)
(* C27: in the response of the JSON layer the parsed part of the body is   *)
(* the failure marker (an empty JsonString; a null value in the revision   *)
(* that holds a parsed value) whenever the inner body is empty or is not   *)
(* valid JSON, and RawBytes is the inner body.                             *)
(***************************************************************************)
ParseFailureMarker ==
    IF decodeLayer = "FJsonLayer.JsonValue" THEN NullPtr ELSE <<>>

C27_ParseFailureMarker ==
    (/\ decodeLayer \in JsonLayers
     /\ DecodeDone
     /\ InnerResult.valid
     /\ \/ Len(InnerResult.value.Body) = 0
        \/ InvalidJson(InnerResult.value.Body))
    => /\ decodeResult.valid
       /\ decodeResult.value.Body.Json = ParseFailureMarker
       /\ decodeResult.value.Body.RawBytes = InnerResult.value.Body

\* C27 witness: the JsonString revision got an empty body and returned an
\* empty JsonString
C27_Witness ==
    /\ decodeLayer = "FJsonLayer.JsonString"
    /\ DecodeDone
    /\ InnerResult.valid
    /\ Len(InnerResult.value.Body) = 0
    /\ decodeResult.valid
    /\ decodeResult.value.Body.Json = <<>>


\* the keys a FInjectHeaderLayer's configuration cfg gives a header for
KeysOf(cfg) ==
    DOMAIN cfg.Headers \cup cfg.LazyHeaders \cup cfg.AsyncLazyHeaders

\* the wrapped extract service applied an extractor
ExtractorApplied == decodeLayer \in ExtractLayers /\ extractorCalls # <<>>

\* C28: a service made by Wrap applies the extractors and headers its layer
\* had when Wrap ran: after Register on the TExtractLayer, or AddHeader or
\* LazyHeader on the FInjectHeaderLayer, the service applies no extractor
\* that was registered since, and injects no header that was added since.
C28_FixedAtWrap ==
    /\ ExtractorApplied
         => InnerResult.value.ContentType \in atWrap.Extractors
    /\ injectConfig = atWrap.injectConfig
    /\ \A p \in Calls :
         InjectForwarded(p)
           => DOMAIN injectSeen[p].Headers
                \subseteq DOMAIN OriginalHeaders
                            \cup KeysOf(atWrap.injectConfig)

\* C28, its case: the layer was configured on after Wrap, and the service
\* then ran a call: an extractor was applied, or the request was forwarded
\* while the layer held a header the service was not wrapped with
C28_Witness ==
    /\ registrations > 0
    /\ \/ ExtractorApplied /\ Extractors # atWrap.Extractors
       \/ /\ InjectForwarded("p")
          /\ KeysOf(layerConfig) # KeysOf(atWrap.injectConfig)


\* the bucket of every service holds between no token and MaxTokens tokens
BucketInBounds ==
    \A s \in Services : 0 <= CurrentTokens[s] /\ CurrentTokens[s] <= Capacity

\* no step takes a bucket's LastRefillTime back
RefillTimeKept ==
    \A s \in Services : LastRefillTime'[s] >= LastRefillTime[s]

\* C29: in every reachable state of a rate-limited service, whatever the
\* interleaving of the calls' statements and the passage of time,
\* 0 <= CurrentTokens <= MaxTokens, and LastRefillTime never decreases.
C29_BucketBounds == []BucketInBounds /\ [][RefillTimeKept]_vars

\* C29, its case: both threads took a token, the bucket was refilled after
\* time had passed, and it is empty again
C29_Witness ==
    /\ callHist["p"].inner > 0 /\ callHist["q"].inner > 0
    /\ LastRefillTime["A"] > 0
    /\ CurrentTokens["A"] = 0


\* the value results among the inner calls made so far
ValueResults == {i \in DOMAIN retryInnerLog : retryInnerLog[i].valid}

\* C30: for MaxAttempts >= 1 and any sequence of inner outcomes, the result
\* Call returns is the result of the last inner call it made, it makes
\* between 1 and MaxAttempts inner calls, it returns an error only when no
\* attempt remains, and Challenge is invoked on value results only.
C30_RetryProvenance ==
    retryConfig.MaxAttempts >= 1 =>
      /\ Len(retryInnerLog) <= retryConfig.MaxAttempts
      /\ retryChallenged <= Cardinality(ValueResults)
      /\ retryPc = "done" =>
           /\ Len(retryInnerLog) >= 1
           /\ retryResult = retryInnerLog[Len(retryInnerLog)]
           /\ ~retryResult.valid
                => Len(retryInnerLog) = retryConfig.MaxAttempts

\* C30, its case: an error, then a value Challenge rejects, then an error
\* on the last attempt, which is what Call returns
C30_Witness ==
    /\ retryPc = "done"
    /\ retryConfig.MaxAttempts = 3
    /\ Len(retryInnerLog) = 3
    /\ ~retryInnerLog[1].valid
    /\ retryInnerLog[2].valid
    /\ ~retryInnerLog[3].valid
    /\ retryChallenged = 1
    /\ retryResult = retryInnerLog[3]


\* C31: within one Call a delay suspension happens only between two
\* attempts: none before the first inner call and none after the last, so
\* with DelayBetweenRetries > 0 a Call that made n >= 1 inner calls was
\* suspended n - 1 times, and with DelayBetweenRetries = 0 it is never
\* suspended for a delay.
C31_DelayPlacement ==
    IF retryConfig.DelayPositive
    THEN /\ retryPc = "idle" => retryDelays = 0
         /\ retryPc = "inner" => retryDelays = Len(retryInnerLog)
         /\ retryPc = "delay" =>
              /\ retryDelays = Len(retryInnerLog)
              /\ Len(retryInnerLog) >= 1
              /\ Len(retryInnerLog) < retryConfig.MaxAttempts
         /\ (retryPc = "done" /\ Len(retryInnerLog) >= 1) =>
              retryDelays = Len(retryInnerLog) - 1
    ELSE retryDelays = 0 /\ retryPc # "delay"

\* C31, its case: three attempts with two delays between them, and the Call
\* returned after the third without a further delay
C31_Witness ==
    /\ retryPc = "done"
    /\ retryConfig.DelayPositive
    /\ Len(retryInnerLog) = 3
    /\ retryDelays = 2


\* the positions of the call p's log where it suspended on ev
Suspensions(p, ev) ==
    {i \in DOMAIN injectLog[p] : injectLog[p][i].ev = ev}

\* the call p's copy of the request holds every static and lazy header
StaticAndLazyMerged(p) ==
    LET h == requestObj[<<"inject", p>>].Headers IN
    /\ DOMAIN injectConfig.Headers \cup injectConfig.LazyHeaders
         \subseteq DOMAIN h
    /\ injectConfig.bOverrideExisting =>
         /\ \A k \in injectConfig.LazyHeaders :
              h[k] \in {"lazy"} \cup AsyncValues
         /\ \A k \in DOMAIN injectConfig.Headers \ injectConfig.LazyHeaders :
              h[k] \in {"static"} \cup AsyncValues

\* C32: within one Call the async-lazy providers are awaited one at a time,
\* each resumed before the next is invoked, and only once the static and
\* lazy headers are merged; the inner service is called exactly once, after
\* the last provider has yielded and with every async-lazy key set; what
\* the inner service returns is what Call returns.
C32_InjectSequencing ==
    \A p \in Calls :
        LET log == injectLog[p] IN
        /\ \A i \in Suspensions(p, "await") :
             /\ i = Len(log)
                  \/ /\ log[i + 1].ev = "yield"
                     /\ log[i + 1].key = log[i].key
             /\ \A j \in Suspensions(p, "inner") : i < j
        /\ log # <<>> => StaticAndLazyMerged(p)
        /\ Cardinality(Suspensions(p, "inner")) <= 1
        /\ \A j \in Suspensions(p, "inner") :
             /\ j = 1 \/ log[j - 1].ev = "yield"
             /\ injectConfig.AsyncLazyHeaders
                  \subseteq DOMAIN injectSeen[p].Headers
        /\ injectPc[p] = "done" =>
             /\ Cardinality(Suspensions(p, "inner")) = 1
             /\ log[Len(log) - 1].ev = "inner"
             /\ log[Len(log)].ev = "resume"
             /\ injectResult[p] = log[Len(log)].res

\* C32, its case: a call awaited two providers in turn, then the inner
\* service, and returned its result
C32_Witness ==
    /\ injectPc["p"] = "done"
    /\ Len(injectLog["p"]) = 6
    /\ Cardinality(Suspensions("p", "await")) = 2
    /\ injectConfig.LazyHeaders # {}
    /\ injectResult["p"].valid


\* the extract result holds a content
ContentPresent ==
    decodeResult.valid /\ ~decodeResult.value.content.null

\* C33: when the inner call of an extract service succeeded, the content of
\* the result is present exactly when an extractor is registered for the
\* response's type-key, the body is not empty and that extractor returned
\* a non-null value, which is then the content; the extractor is invoked
\* at most once, on the body, and never for an empty body or an
\* unregistered type-key; when it returns null the result is a success.
C33_ContentPresence ==
    (decodeLayer \in ExtractLayers /\ decodePc = "done" /\ InnerResult.valid)
      => LET r == InnerResult.value
             due == r.ContentType \in Extractors /\ Len(r.Body) > 0 IN
         /\ Len(extractorCalls) <= 1
         /\ Len(extractorGave) = Len(extractorCalls)
         /\ extractorCalls # <<>> => due /\ extractorCalls[1] = r.Body
         /\ ContentPresent <=>
              due /\ extractorGave # <<>> /\ ~extractorGave[1].null
         /\ ContentPresent => decodeResult.value.content = extractorGave[1]
         /\ (extractorGave # <<>> /\ extractorGave[1].null)
              => decodeResult.valid /\ decodeResult.value.base = r

\* C33, its case: the extractor registered for the type-key was invoked on
\* a non-empty body and returned null: a success without content
C33_Witness ==
    /\ decodeLayer = "TExtractLayer"
    /\ decodePc = "done"
    /\ InnerResult.valid
    /\ Len(InnerResult.value.Body) > 0
    /\ extractorGave = <<NullPtr>>
    /\ decodeResult.valid
    /\ ~ContentPresent


(***************************************************************************)
(* Claims about the origin cache under concurrent calls (SpecLocks)        *)
(***************************************************************************)
\* the call p read a populated cache when it started
StartedOnCache(p) == originHist[p].cacheAtEntry.IsSet

\* the call p, for a relative target, read the cache and has resolved its
\* origin
OriginKnown(p) ==
    originPc[p] \in {"inner", "done"} /\ originHist[p].cacheReads = 1

\* a populated cache keeps its value in this step
CacheKept == CachedOrigin.IsSet => CachedOrigin' = CachedOrigin

\* C34, as claimed: once the cache holds a non-empty origin it is never
\* replaced by a different value, and every call that starts after that
\* point combines its URL with that same value.
C34_CacheNeverReplaced ==
    /\ [][CacheKept]_vars
    /\ [](\A p \in Calls :
            (StartedOnCache(p) /\ OriginKnown(p))
              => originHist[p].resolved = CachedOrigin.Value)

\* a step that changes the cache is the write of a call that missed the
\* cache, storing the non-empty value the provider yielded to that call
CacheChangedByMiss ==
    CachedOrigin' # CachedOrigin =>
        \E p \in Calls :
            /\ originPc[p] = "write"
            /\ ~StartedOnCache(p)
            /\ locals[p].ProviderResult # <<>>
            /\ CachedOrigin' = [IsSet |-> TRUE,
                                Value |-> locals[p].ProviderResult]

\* a call that started on a populated cache invokes no provider and
\* resolves to the value it read; a call that missed resolves to what the
\* provider yielded to it, and the cache is populated once that is not empty
CallsFollowCache ==
    \A p \in Calls :
        OriginKnown(p) =>
            IF StartedOnCache(p)
            THEN /\ originHist[p].providerCalls = 0
                 /\ originHist[p].resolved = originHist[p].cacheAtEntry.Value
            ELSE /\ originHist[p].yielded # <<>>
                 /\ originHist[p].resolved = originHist[p].yielded[1]
                 /\ originHist[p].resolved # <<>> => CachedOrigin.IsSet

\* C34, amended: the cache holds the last non-empty value a provider
\* yielded: only a call that started before the cache was populated writes
\* it, and such a call may replace the value an earlier one stored; a call
\* that starts on a populated cache invokes no provider and combines its
\* URL with the value it read.
C34_LastWriterWins == [][CacheChangedByMiss]_vars /\ []CallsFollowCache

\* C34, its case: two calls started before the cache was populated, the
\* provider yielded a different origin to each, and both have stored theirs
C34_Witness ==
    /\ originPc["p"] = "done" /\ originPc["q"] = "done"
    /\ originHist["p"].cacheWrites = 1 /\ originHist["q"].cacheWrites = 1
    /\ originHist["p"].yielded # originHist["q"].yielded
    /\ CachedOrigin.IsSet


(***************************************************************************)
(* Claims about TRetryLayer around the transport (SpecTransportRetry)      *)
(***************************************************************************)
\* the attempt ended in a response the transport marks as not succeeded
HttpFailure(res) == res.valid /\ ~res.value.bSucceeded

\* the attempt failed: a transport error, or an HTTP failure response
FailedAttempt(res) == ~res.valid \/ HttpFailure(res)

C36_ZeroAttempts ==
    retryConfig.MaxAttempts = 0 =>
      /\ retryPc \in {"idle", "done"}
      /\ retryInnerLog = <<>>
      /\ retryDelays = 0
      /\ retryChallenged = 0
      /\ retryPc = "done" =>
           /\ retryResult = [valid |-> FALSE, value |-> NoValue,
                             error |-> DefaultError]
           /\ ~retryResult.valid

\* C36, its case: the Call of a service with MaxAttempts = 0, a delay and a
\* Challenge configured has returned
C36_Witness ==
    /\ retryConfig.MaxAttempts = 0
    /\ retryConfig.DelayPositive
    /\ retryConfig.HasChallenge
    /\ retryPc = "done"
    /\ retryDelays = 0
    /\ retryInnerLog = <<>>


(***************************************************************************)
(* Claims about the termination of WaitForToken (SpecRateLive)             *)
(***************************************************************************)
\* the call p is suspended in WaitForToken
Waiting(p) == callPc[p] = "sleep"

\* the call p left WaitForToken with a token and awaits the inner service
Admitted(p) == callPc[p] = "inner"

\* the call p left WaitForToken without a token: Call returned the error
GaveUp(p) == callPc[p] = "done" /\ callResult[p] = RateLimitTimeout

SinceCreated == now - svcHist["A"].created
RefilledSinceCreated == LastRefillTime["A"] - svcHist["A"].created

\* C38: the calls one rate-limited service admitted to its inner service
\* within the time t since it was created number at most
\* MaxTokens + t x TokensPerSecond (a token is TokenUnit parts and a tick
\* adds one part), and each of them took one whole token out of the bucket,
\* which a failing inner call does not put back: the tokens held and the
\* tokens taken never exceed the capacity plus the refill so far.
C38_RateBound ==
    wrapped["A"] =>
        /\ TokenUnit * Acquisitions <= Capacity + SinceCreated
        /\ CurrentTokens["A"] + TokenUnit * Acquisitions
             <= Capacity + RefilledSinceCreated

\* C38, its case: as many calls were admitted as the bound allows after
\* some time, and the inner call of one of them failed
C38_Witness ==
    /\ wrapped["A"]
    /\ now > 0
    /\ TokenUnit * Acquisitions = Capacity + SinceCreated
    /\ callPc["p"] = "done" /\ callHist["p"].acquired
    /\ ~callResult["p"].valid
    /\ CurrentTokens["A"] = 0


\* the values the source that takes precedence for the key k can give: the
\* earliest of static, lazy, async-lazy without override, the latest with it
PrecedingValues(k) ==
    IF injectConfig.bOverrideExisting
    THEN IF k \in injectConfig.AsyncLazyHeaders THEN AsyncValues
         ELSE IF k \in injectConfig.LazyHeaders THEN {"lazy"}
         ELSE {"static"}
    ELSE IF k \in DOMAIN injectConfig.Headers THEN {"static"}
         ELSE IF k \in injectConfig.LazyHeaders THEN {"lazy"}
         ELSE AsyncValues

\* C39: when a header name is configured in more than one source and the
\* request does not carry it, the inner service sees the value of the
\* earliest source in the order static, lazy, async-lazy with
\* OverrideExisting=false, and of the latest with OverrideExisting=true.
C39_SourcePrecedence ==
    \A p \in Calls : InjectForwarded(p) =>
      \A k \in HeaderKeys :
        (Cardinality(SourcesOf(k)) > 1 /\ k \notin DOMAIN OriginalHeaders)
          => /\ k \in DOMAIN injectSeen[p].Headers
             /\ injectSeen[p].Headers[k] \in PrecedingValues(k)

\* C39, its case: with override, the key X of all three sources, absent
\* from the request, reached the inner service with the awaited value; the
\* key Y of the static and lazy sources with the lazy one
C39_Witness ==
    /\ injectConfig.bOverrideExisting
    /\ OriginalHeaders = <<>>
    /\ DOMAIN injectConfig.Headers = {"X", "Y"}
    /\ injectConfig.LazyHeaders = {"X", "Y"}
    /\ injectConfig.AsyncLazyHeaders = {"X"}
    /\ injectPc["p"] = "done"
    /\ injectSeen["p"].Headers["X"] = "async2"
    /\ injectSeen["p"].Headers["Y"] = "lazy"

=============================================================================
